---- MODULE Spec2Model ----
(***************************************************************************)
(* A model of the udev manager's event queue, blocking analysis, worker    *)
(* pool and retry handling (src/src/udev/udev-manager.c).                  *)
(*                                                                         *)
(* The manager is a single-threaded event loop: every handler below is one *)
(* atomic action.  Worker processes, the kernel's uevent source, the       *)
(* notify socket and the clock are the environment.                        *)
(***************************************************************************)
EXTENDS Integers, Sequences, FiniteSets, TLC

(***************************************************************************)
(* Bounds of the model.                                                    *)
(***************************************************************************)
MaxEvents == 2        \* uevents the kernel delivers in one behaviour
MaxChildren == 2      \* largest children_max the configuration may hold
MaxTicks == 1         \* clock steps of one retry interval
MaxBigTicks == 1      \* clock steps of one retry window
MaxNotify == 1        \* datagrams waiting in the notify socket
MaxRetrying == 1      \* events that may be in their retry window at once
MaxLen == 3           \* longest path the devpath_conflict harness draws
MaxOrderEvents == 3   \* uevents of one behaviour of OrderSpec

(***************************************************************************)
(* Program constants (microseconds).                                       *)
(***************************************************************************)
EVENT_RETRY_INTERVAL_USEC == 200 * 1000
EVENT_RETRY_TIMEOUT_USEC == 3 * 60 * 1000 * 1000

(***************************************************************************)
(* C strings: a string is the tuple of its characters, read with a         *)
(* terminating NUL; NULL is the absent pointer.                            *)
(***************************************************************************)
NULL == <<"NULL">>
NUL == "NUL"
Alphabet == {"/", "a", "b"}

CharAt(s, i) == IF i <= Len(s) THEN s[i] ELSE NUL

streq_ptr(a, b) == a = b

RECURSIVE devpath_conflict_loop(_, _, _)
devpath_conflict_loop(a, b, i) ==
    IF CharAt(a, i) # NUL /\ CharAt(b, i) # NUL
    THEN IF CharAt(a, i) # CharAt(b, i)
         THEN FALSE
         ELSE devpath_conflict_loop(a, b, i + 1)
    ELSE \/ CharAt(a, i) = "/"
         \/ CharAt(b, i) = "/"
         \/ CharAt(a, i) = CharAt(b, i)

\* A plausible slip: a plain prefix test without the '/' boundary.
devpath_conflict_noboundary(a, b) ==
    IF a = NULL \/ b = NULL THEN FALSE
    ELSE LET n == IF Len(a) < Len(b) THEN Len(a) ELSE Len(b)
         IN  SubSeq(a, 1, n) = SubSeq(b, 1, n)

devpath_conflict(a, b) ==
    IF a = NULL \/ b = NULL THEN FALSE
    ELSE devpath_conflict_loop(a, b, 1)

(***************************************************************************)
(* The devices the kernel may announce.  seqnum_ok / action_ok say whether *)
(* the uevent carries SEQNUM and ACTION; disk is the whole-disk name of a  *)
(* block device (NULL otherwise).                                          *)
(***************************************************************************)
Dev(path, old, id, node, disk) ==
    [devpath |-> path, devpath_old |-> old, id |-> id, devnode |-> node,
     disk |-> disk, seqnum_ok |-> TRUE, action_ok |-> TRUE]

Devices ==
    { Dev(<<"/", "a">>, NULL, <<"b", "1">>, <<"s", "d", "a">>, <<"s", "d", "a">>),
      Dev(<<"/", "a", "/", "b">>, NULL, <<"b", "2">>, <<"s", "d", "a", "1">>, <<"s", "d", "a">>),
      Dev(<<"/", "a", "b">>, NULL, NULL, NULL, NULL),
      Dev(<<"/", "b">>, NULL, NULL, NULL, NULL),
      Dev(<<"/", "b", "b">>, <<"/", "b">>, <<"b", "1">>, NULL, NULL),
      Dev(<<"/", "b", "a">>, NULL, <<"b", "3">>, <<"s", "d", "a">>, <<"s", "d", "a">>) }

BadDevices ==
    { [Dev(<<"/", "a">>, NULL, NULL, NULL, NULL) EXCEPT !.seqnum_ok = FALSE],
      [Dev(<<"/", "a">>, NULL, NULL, NULL, NULL) EXCEPT !.action_ok = FALSE],
      Dev(NULL, NULL, NULL, NULL, NULL) }

(***************************************************************************)
(* Event and Worker records.  A worker is named by its pid; 0 stands for   *)
(* the NULL pointer in Event.worker and Worker.event (which holds the      *)
(* event's seqnum).                                                        *)
(***************************************************************************)
EVENT_QUEUED == "EVENT_QUEUED"
EVENT_RUNNING == "EVENT_RUNNING"

WORKER_RUNNING == "WORKER_RUNNING"
WORKER_IDLE == "WORKER_IDLE"
WORKER_KILLED == "WORKER_KILLED"
WORKER_KILLING == "WORKER_KILLING"

Event(dev, seqnum) ==
    [seqnum |-> seqnum, blocker_seqnum |-> 0, worker |-> 0, state |-> EVENT_QUEUED,
     id |-> dev.id, devpath |-> dev.devpath, devpath_old |-> dev.devpath_old,
     devnode |-> dev.devnode, disk |-> dev.disk,
     retry_again_next_usec |-> 0, retry_again_timeout_usec |-> 0,
     retry_event_source |-> FALSE,
     timeout_warning_event |-> FALSE, timeout_event |-> FALSE]
\* The three sd_event_source fields say whether the pointer is set.

Worker(state) == [state |-> state, event |-> 0]

\* Positions of the queue holding the event with this seqnum.
Pos(evs, seqnum) == {i \in 1..Len(evs) : evs[i].seqnum = seqnum}
IndexOf(evs, seqnum) == CHOOSE i \in Pos(evs, seqnum) : TRUE
Seqnums(evs) == {evs[i].seqnum : i \in 1..Len(evs)}

RemoveAt(s, i) == SubSeq(s, 1, i - 1) \o SubSeq(s, i + 1, Len(s))

Without(f, k) == [x \in (DOMAIN f) \ {k} |-> f[x]]
With(f, k, v) == [x \in (DOMAIN f) \cup {k} |-> IF x = k THEN v ELSE f[x]]

(***************************************************************************)
(* event_is_blocked(): the blocking analysis with its blocker cache.       *)
(* The result is [r, abort, events]: r > 0 blocked, r = 0 not blocked,     *)
(* r < 0 the time lookup failed; abort is a failed assert(); events is the *)
(* queue with the event's blocker_seqnum as the call leaves it.            *)
(***************************************************************************)
\* A plausible slip: only the device paths are compared.
is_conflicting_paths_only(loop_event, event) ==
    \/ devpath_conflict(event.devpath, loop_event.devpath)
    \/ devpath_conflict(event.devpath, loop_event.devpath_old)
    \/ devpath_conflict(event.devpath_old, loop_event.devpath)

\* The three conflict tests of the scan loop (loop_event against event).
is_conflicting(loop_event, event) ==
    \/ streq_ptr(loop_event.id, event.id)
    \/ devpath_conflict(event.devpath, loop_event.devpath)
    \/ devpath_conflict(event.devpath, loop_event.devpath_old)
    \/ devpath_conflict(event.devpath_old, loop_event.devpath)
    \/ (event.devnode # NULL /\ streq_ptr(event.devnode, loop_event.devnode))

\* First LIST_FOREACH: skip what was proven clear, find where to go on.
RECURSIVE find_unchecked(_, _, _)
find_unchecked(evs, event, k) ==
    IF k > Len(evs) THEN [what |-> "end", at |-> k]
    ELSE IF evs[k].seqnum < event.blocker_seqnum THEN find_unchecked(evs, event, k + 1)
    ELSE IF evs[k].seqnum = event.blocker_seqnum THEN [what |-> "blocked", at |-> k]
    ELSE IF evs[k].seqnum >= event.seqnum THEN [what |-> "no_blocker", at |-> k]
    ELSE [what |-> "scan", at |-> k]

\* Second LIST_FOREACH: the first earlier event that conflicts.  Running off
\* the end of the list leaves loop_event at the last entry.
RECURSIVE find_blocker(_, _, _)
find_blocker(evs, event, j) ==
    IF j > Len(evs) THEN [what |-> "found", at |-> Len(evs)]
    ELSE IF evs[j].seqnum >= event.seqnum THEN [what |-> "no_blocker", at |-> j]
    ELSE IF is_conflicting(evs[j], event) THEN [what |-> "found", at |-> j]
    ELSE find_blocker(evs, event, j + 1)

\* A plausible slip: event->seqnum written where loop_event->seqnum is meant.
set_blocker_self(evs, i, seqnum) == [evs EXCEPT ![i].blocker_seqnum = evs[i].seqnum]

\* A plausible slip: "no blocker" is stored as 0, the value of a new event.
set_blocker_reset(evs, i, seqnum) ==
    [evs EXCEPT ![i].blocker_seqnum = IF seqnum = evs[i].seqnum THEN 0 ELSE seqnum]

set_blocker(evs, i, seqnum) == [evs EXCEPT ![i].blocker_seqnum = seqnum]

\* A plausible slip: the retry time is not looked at.
event_is_blocked_no_gate(evs, i, now_ok, now_usec) ==
    LET event == evs[i]
        first == find_unchecked(evs, event, 1)
        second == find_blocker(evs, event, first.at)
        ret(r, q) == [r |-> r, abort |-> FALSE, events |-> q]
    IN  IF event.blocker_seqnum > event.seqnum
        THEN [r |-> 0, abort |-> TRUE, events |-> evs]
        ELSE IF event.blocker_seqnum = event.seqnum THEN ret(0, evs)
        ELSE IF first.what = "blocked" THEN ret(1, evs)
        ELSE IF first.what = "no_blocker" THEN ret(0, set_blocker(evs, i, event.seqnum))
        ELSE IF first.what = "end" THEN [r |-> 0, abort |-> TRUE, events |-> evs]
        ELSE IF second.what = "no_blocker" THEN ret(0, set_blocker(evs, i, event.seqnum))
        ELSE ret(1, set_blocker(evs, i, evs[second.at].seqnum))

event_is_blocked(evs, i, now_ok, now_usec) ==
    LET event == evs[i]
        first == find_unchecked(evs, event, 1)
        second == find_blocker(evs, event, first.at)
        ret(r, q) == [r |-> r, abort |-> FALSE, events |-> q]
    IN  IF event.blocker_seqnum > event.seqnum
        THEN [r |-> 0, abort |-> TRUE, events |-> evs]
        ELSE IF event.retry_again_next_usec > 0 /\ ~now_ok THEN ret(-1, evs)
        ELSE IF event.retry_again_next_usec > 0 /\ event.retry_again_next_usec > now_usec
        THEN ret(1, evs)
        ELSE IF event.blocker_seqnum = event.seqnum THEN ret(0, evs)
        ELSE IF first.what = "blocked" THEN ret(1, evs)
        ELSE IF first.what = "no_blocker" THEN ret(0, set_blocker(evs, i, event.seqnum))
        ELSE IF first.what = "end" THEN [r |-> 0, abort |-> TRUE, events |-> evs]
        ELSE IF second.what = "no_blocker" THEN ret(0, set_blocker(evs, i, event.seqnum))
        ELSE ret(1, set_blocker(evs, i, evs[second.at].seqnum))


(***************************************************************************)
(* The manager's data while a handler runs: m = [events, workers, procs,   *)
(* orphans, abort, log].  events is Manager.events (the queue, head        *)
(* first), workers is Manager.workers (pid -> Worker).  procs holds the    *)
(* process of each worker as the operating system sees it: "work" while it *)
(* handles the device it was sent, "wait" while it waits for a device,     *)
(* "zombie" once it has exited and is not yet reaped.  orphans holds the   *)
(* seqnums of the events handed, in this handler, to forked processes for  *)
(* which no Worker could be created; the manager never hears of such a     *)
(* process again.  abort is a failed assert() or a NULL                    *)
(* dereference.  log collects what the handler gave out: r its return      *)
(* value, errs the events whose blocking analysis returned an error, errno *)
(* the error put on a device, bcast the events whose device was broadcast, *)
(* signals the <<pid, signal>> pairs of kill().                            *)
(***************************************************************************)
NoLog == [errs |-> {}, bcast |-> {}, errno |-> "none", signals |-> {}, r |-> 0]

kill(m, pid, sig) == [m EXCEPT !.log.signals = @ \cup {<<pid, sig>>}]

Abort(m) == [m EXCEPT !.abort = TRUE]

\* A plausible slip: the worker keeps its pointer to the freed event.
event_free_keep_link(m, seqnum) ==
    IF seqnum = 0 THEN m
    ELSE [m EXCEPT !.events = RemoveAt(@, IndexOf(m.events, seqnum))]

\* event_free(): unlink from the queue and from the worker; the event's
\* timers go with the record.  seqnum 0 is the NULL event.
event_free(m, seqnum) ==
    IF seqnum = 0 THEN m
    ELSE LET i == IndexOf(m.events, seqnum)
             w == m.events[i].worker
         IN  [m EXCEPT !.events = RemoveAt(@, i),
                       !.workers = IF w \in DOMAIN @ THEN [@ EXCEPT ![w].event = 0] ELSE @]

RECURSIVE event_queue_cleanup_from(_, _, _)
event_queue_cleanup_from(m, match_state, i) ==
    IF i > Len(m.events) THEN m
    ELSE IF match_state # "EVENT_UNDEF" /\ match_state # m.events[i].state
    THEN event_queue_cleanup_from(m, match_state, i + 1)
    ELSE event_queue_cleanup_from(event_free(m, m.events[i].seqnum), match_state, i)

event_queue_cleanup(m, match_state) == event_queue_cleanup_from(m, match_state, 1)

\* A plausible slip: the worker's event is left in the queue.
worker_free_keep_event(m, pid) == [m EXCEPT !.workers = Without(@, pid)]

\* worker_free(): drop the table entry, then free the worker's event.
worker_free(m, pid) ==
    LET seqnum == m.workers[pid].event
    IN  event_free([m EXCEPT !.workers = Without(@, pid)], seqnum)

manager_kill_workers(m, force) ==
    LET after(pid) ==
            IF m.workers[pid].state = WORKER_KILLED THEN m.workers[pid]
            ELSE IF m.workers[pid].state = WORKER_RUNNING /\ ~force
            THEN [m.workers[pid] EXCEPT !.state = WORKER_KILLING]
            ELSE [m.workers[pid] EXCEPT !.state = WORKER_KILLED]
        signalled ==
            {pid \in DOMAIN m.workers :
                /\ m.workers[pid].state # WORKER_KILLED
                /\ ~(m.workers[pid].state = WORKER_RUNNING /\ ~force)}
    IN  [m EXCEPT !.workers = [pid \in DOMAIN m.workers |-> after(pid)],
                  !.log.signals = @ \cup {<<pid, "SIGTERM">> : pid \in signalled}]

\* worker_attach_event(): link both ways and arm the two timers.
worker_attach_event(m, pid, i) ==
    IF m.events[i].worker # 0 \/ m.workers[pid].event # 0 THEN Abort(m)
    ELSE [m EXCEPT !.workers[pid] = [state |-> WORKER_RUNNING, event |-> m.events[i].seqnum],
                   !.events[i].state = EVENT_RUNNING,
                   !.events[i].worker = pid,
                   !.events[i].timeout_warning_event = TRUE,
                   !.events[i].timeout_event = TRUE]


(***************************************************************************)
(* Dispatch.  What a dispatch does depends on inputs the manager does not  *)
(* control (whether a send or a fork succeeds, the hashmap's iteration     *)
(* order), so event_run and event_queue_start yield the SET of outcomes    *)
(* [m, r] the code can produce; r is the C return value.                   *)
(***************************************************************************)
VARIABLES events, workers, procs, notify, now_usec, ticks, kseq, children_max,
          exit, stop_exec_queue, queue_file, exited, crashed, post,
          fn_a, fn_b, fn_r

vars == <<events, workers, procs, notify, now_usec, ticks, kseq, children_max,
          exit, stop_exec_queue, queue_file, exited, crashed, post,
          fn_a, fn_b, fn_r>>

PidPool == 2..(MaxChildren + 1)

\* The pid fork() gives a new worker: the lowest one not held by a worker
\* process, live or zombie, and not named by a datagram still waiting in
\* the notify socket.
UnusedPids(m) ==
    {p \in PidPool : p \notin DOMAIN m.workers /\ \A k \in 1..Len(notify) : notify[k].pid # p}
FreePids(m) == {p \in UnusedPids(m) : \A q \in UnusedPids(m) : p <= q}

Out(m, r) == [m |-> [m EXCEPT !.log.r = r], r |-> r]

\* A plausible slip: the event is marked RUNNING before fork() and not put
\* back when fork() fails.
worker_spawn_keep_running(m, i) ==
    LET seqnum == m.events[i].seqnum
    IN  {Out([m EXCEPT !.log.errno = "monitor"], -1)}
        \cup {Out([m EXCEPT !.events[i].state = EVENT_RUNNING, !.log.errno = "fork"], -1)}
        \cup {Out([m EXCEPT !.orphans = @ \cup {seqnum}, !.log.errno = "worker_new"], -1)}
        \cup {Out(worker_attach_event(
                      [m EXCEPT !.procs = With(@, pid, "work"),
                                !.workers = With(@, pid, Worker("WORKER_UNDEF"))],
                      pid, i), 0) : pid \in FreePids(m)}

\* worker_spawn(): the monitor cannot be set up; fork() fails; fork()
\* succeeds and worker_new() fails (the child runs, no Worker exists);
\* or the worker is created and the event attached.
worker_spawn(m, i) ==
    LET seqnum == m.events[i].seqnum
    IN  {Out([m EXCEPT !.log.errno = "monitor"], -1)}
        \cup {Out([m EXCEPT !.events[i].state = EVENT_QUEUED, !.log.errno = "fork"], -1)}
        \cup {Out([m EXCEPT !.orphans = @ \cup {seqnum}, !.log.errno = "worker_new"], -1)}
        \cup {Out(worker_attach_event(
                      [m EXCEPT !.procs = With(@, pid, "work"),
                                !.workers = With(@, pid, Worker("WORKER_UNDEF"))],
                      pid, i), 0) : pid \in FreePids(m)}

\* A plausible slip: every worker that is not RUNNING is taken for idle.
IdleWorkers_not_running(m) ==
    {pid \in DOMAIN m.workers : m.workers[pid].state # WORKER_RUNNING}

\* A plausible slip: a killed worker without an event is taken for idle.
IdleWorkers_with_killed(m) ==
    {pid \in DOMAIN m.workers :
        \/ m.workers[pid].state = WORKER_IDLE
        \/ m.workers[pid].state = WORKER_KILLED /\ m.workers[pid].event = 0}

IdleWorkers(m) == {pid \in DOMAIN m.workers : m.workers[pid].state = WORKER_IDLE}

\* device_monitor_send() to a worker can succeed only if the process is
\* there to receive it; it can always fail.
CanAccept(m, pid) == m.procs[pid] = "wait"

\* A plausible slip: the worker is signalled and its state left as it was.
kill_refusing_keep_state(m, refusing) ==
    [m EXCEPT !.log.signals = @ \cup {<<pid, "SIGKILL">> : pid \in refusing}]

\* The idle workers in `refusing` did not accept the message: SIGKILL, KILLED.
kill_refusing(m, refusing) ==
    [m EXCEPT !.workers = [pid \in DOMAIN m.workers |->
                              IF pid \in refusing
                              THEN [m.workers[pid] EXCEPT !.state = WORKER_KILLED]
                              ELSE m.workers[pid]],
              !.log.signals = @ \cup {<<pid, "SIGKILL">> : pid \in refusing}]

hand_off(m, pid, i) ==
    worker_attach_event([m EXCEPT !.procs[pid] = "work"], pid, i)

\* A plausible slip: spawn without looking at the size of the worker table.
event_run_no_limit(m, i) ==
    {IF o.r < 0 THEN o ELSE Out(o.m, 1) :
        o \in worker_spawn([m EXCEPT !.events[i].retry_event_source = FALSE], i)}

\* A plausible slip: a worker may be spawned while idle workers have not
\* been tried.
event_run_spawn_untried(m, i) ==
    LET m1 == [m EXCEPT !.events[i].retry_event_source = FALSE]
        idle == IdleWorkers(m1)
        accepted ==
            UNION {{Out(hand_off(kill_refusing(m1, refusing), pid, i), 1) :
                        pid \in {p \in idle \ refusing : CanAccept(m1, p)}} :
                   refusing \in SUBSET idle}
        spawned(m2) ==
            IF Cardinality(DOMAIN m2.workers) >= children_max
            THEN {Out(m2, 0)}
            ELSE {IF o.r < 0 THEN o ELSE Out(o.m, 1) : o \in worker_spawn(m2, i)}
    IN  accepted \cup spawned(kill_refusing(m1, idle)) \cup spawned(m1)

event_run(m, i) ==
    LET m1 == [m EXCEPT !.events[i].retry_event_source = FALSE]
        idle == IdleWorkers(m1)
        \* HASHMAP_FOREACH visits the workers in an order the manager does not
        \* choose: any set of idle workers may be visited, and refuse, before
        \* one accepts.
        accepted ==
            UNION {{Out(hand_off(kill_refusing(m1, refusing), pid, i), 1) :
                        pid \in {p \in idle \ refusing : CanAccept(m1, p)}} :
                   refusing \in SUBSET idle}
        m2 == kill_refusing(m1, idle)
        none_accepted ==
            IF Cardinality(DOMAIN m2.workers) >= children_max
            THEN {Out(m2, 0)}
            ELSE {IF o.r < 0 THEN o ELSE Out(o.m, 1) : o \in worker_spawn(m2, i)}
    IN  accepted \cup none_accepted


\* A plausible slip: the loop goes on to the next event when event_run()
\* could not start this one.
RECURSIVE dispatch_from_no_stop(_, _)
dispatch_from_no_stop(m, i) ==
    IF i > Len(m.events) THEN {Out(m, 0)}
    ELSE IF m.events[i].state # EVENT_QUEUED THEN dispatch_from_no_stop(m, i + 1)
    ELSE UNION {
        LET b == event_is_blocked(m.events, i, now_ok, now_usec)
            m1 == [m EXCEPT !.events = b.events,
                            !.log.errs = IF b.r < 0 THEN @ \cup {m.events[i].seqnum} ELSE @]
        IN  IF b.abort THEN {Out(Abort(m), 0)}
            ELSE IF b.r > 0 THEN dispatch_from_no_stop(m1, i + 1)
            ELSE UNION {IF o.m.abort THEN {o} ELSE dispatch_from_no_stop(o.m, i + 1) :
                        o \in event_run(m1, i)}
        : now_ok \in IF m.events[i].retry_again_next_usec > 0 THEN BOOLEAN ELSE {TRUE}}

\* A plausible slip: an analysis that failed is taken for "blocked".
RECURSIVE dispatch_from_fail_closed(_, _)
dispatch_from_fail_closed(m, i) ==
    IF i > Len(m.events) THEN {Out(m, 0)}
    ELSE IF m.events[i].state # EVENT_QUEUED THEN dispatch_from_fail_closed(m, i + 1)
    ELSE UNION {
        LET b == event_is_blocked(m.events, i, now_ok, now_usec)
            m1 == [m EXCEPT !.events = b.events,
                            !.log.errs = IF b.r < 0 THEN @ \cup {m.events[i].seqnum} ELSE @]
        IN  IF b.abort THEN {Out(Abort(m), 0)}
            ELSE IF b.r # 0 THEN dispatch_from_fail_closed(m1, i + 1)
            ELSE UNION {IF o.r <= 0 \/ o.m.abort THEN {o}
                        ELSE dispatch_from_fail_closed(o.m, i + 1) :
                        o \in event_run(m1, i)}
        : now_ok \in IF m.events[i].retry_again_next_usec > 0 THEN BOOLEAN ELSE {TRUE}}

\* The loop of event_queue_start() from queue position i on.  The time
\* lookup of event_is_blocked() may fail; it is made only for an event that
\* has a retry time.
RECURSIVE dispatch_from(_, _)
dispatch_from(m, i) ==
    IF i > Len(m.events) THEN {Out(m, 0)}
    ELSE IF m.events[i].state # EVENT_QUEUED THEN dispatch_from(m, i + 1)
    ELSE UNION {
        LET b == event_is_blocked(m.events, i, now_ok, now_usec)
            m1 == [m EXCEPT !.events = b.events,
                            !.log.errs = IF b.r < 0 THEN @ \cup {m.events[i].seqnum} ELSE @]
        IN  IF b.abort THEN {Out(Abort(m), 0)}
            ELSE IF b.r > 0 THEN dispatch_from(m1, i + 1)
            ELSE UNION {IF o.r <= 0 \/ o.m.abort THEN {o} ELSE dispatch_from(o.m, i + 1) :
                        o \in event_run(m1, i)}
        : now_ok \in IF m.events[i].retry_again_next_usec > 0 THEN BOOLEAN ELSE {TRUE}}

\* A plausible slip: the pass is made although the manager is exiting.
event_queue_start_ignore_exit(m, kill_workers) ==
    IF m.events = <<>> \/ stop_exec_queue THEN {Out(m, 0)}
    ELSE dispatch_from(IF kill_workers THEN manager_kill_workers(m, FALSE) ELSE m, 1)

\* event_queue_start(); kill_workers says whether the manager_reload() it
\* calls found changed rules and asked the workers to stop.
event_queue_start(m, kill_workers) ==
    IF m.events = <<>> \/ exit \/ stop_exec_queue THEN {Out(m, 0)}
    ELSE dispatch_from(IF kill_workers THEN manager_kill_workers(m, FALSE) ELSE m, 1)

(***************************************************************************)
(* event_requeue(): a worker could not lock the device.                    *)
(***************************************************************************)
requeue_fail(m, seqnum, errno) ==
    event_free([m EXCEPT !.log.errno = errno, !.log.bcast = @ \cup {seqnum}], seqnum)

\* A plausible slip: the deadline test left out, so every report requeues.
event_requeue_forever(m, seqnum, now_ok, timer_ok) ==
    LET i == IndexOf(m.events, seqnum)
        w == m.events[i].worker
    IN  [m EXCEPT !.events[i].timeout_warning_event = FALSE,
                  !.events[i].timeout_event = FALSE,
                  !.events[i].retry_again_next_usec = now_usec + EVENT_RETRY_INTERVAL_USEC,
                  !.events[i].retry_again_timeout_usec =
                      IF @ = 0 THEN now_usec + EVENT_RETRY_TIMEOUT_USEC ELSE @,
                  !.events[i].retry_event_source = TRUE,
                  !.events[i].worker = 0,
                  !.events[i].state = EVENT_QUEUED,
                  !.workers = IF w # 0 THEN [@ EXCEPT ![w].event = 0] ELSE @]

\* A plausible slip: the deadline compared with < where <= is meant.
event_requeue_late(m, seqnum, now_ok, timer_ok) ==
    IF seqnum = 0 THEN Abort(m)
    ELSE LET i == IndexOf(m.events, seqnum)
             event == m.events[i]
             w == event.worker
         IN  IF ~now_ok THEN requeue_fail(m, seqnum, "now")
             ELSE IF event.retry_again_timeout_usec > 0
                     /\ event.retry_again_timeout_usec < now_usec
             THEN requeue_fail(m, seqnum, "ETIMEDOUT")
             ELSE IF ~timer_ok THEN requeue_fail(m, seqnum, "timer")
             ELSE [m EXCEPT !.events[i].timeout_warning_event = FALSE,
                            !.events[i].timeout_event = FALSE,
                            !.events[i].retry_again_next_usec =
                                now_usec + EVENT_RETRY_INTERVAL_USEC,
                            !.events[i].retry_again_timeout_usec =
                                IF @ = 0 THEN now_usec + EVENT_RETRY_TIMEOUT_USEC ELSE @,
                            !.events[i].retry_event_source = TRUE,
                            !.events[i].worker = 0,
                            !.events[i].state = EVENT_QUEUED,
                            !.workers = IF w # 0 THEN [@ EXCEPT ![w].event = 0] ELSE @]

\* A plausible slip: the two timeout timers survive the requeue.
event_requeue_keep_timers(m, seqnum, now_ok, timer_ok) ==
    IF seqnum = 0 THEN Abort(m)
    ELSE LET i == IndexOf(m.events, seqnum)
             event == m.events[i]
             w == event.worker
         IN  IF ~now_ok THEN requeue_fail(m, seqnum, "now")
             ELSE IF event.retry_again_timeout_usec > 0
                     /\ event.retry_again_timeout_usec <= now_usec
             THEN requeue_fail(m, seqnum, "ETIMEDOUT")
             ELSE IF ~timer_ok THEN requeue_fail(m, seqnum, "timer")
             ELSE [m EXCEPT !.events[i].retry_again_next_usec =
                                now_usec + EVENT_RETRY_INTERVAL_USEC,
                            !.events[i].retry_again_timeout_usec =
                                IF @ = 0 THEN now_usec + EVENT_RETRY_TIMEOUT_USEC ELSE @,
                            !.events[i].retry_event_source = TRUE,
                            !.events[i].worker = 0,
                            !.events[i].state = EVENT_QUEUED,
                            !.workers = IF w # 0 THEN [@ EXCEPT ![w].event = 0] ELSE @]

\* A plausible slip: every requeue moves the deadline.
event_requeue_reset_deadline(m, seqnum, now_ok, timer_ok) ==
    IF seqnum = 0 THEN Abort(m)
    ELSE LET i == IndexOf(m.events, seqnum)
             event == m.events[i]
             w == event.worker
         IN  IF ~now_ok THEN requeue_fail(m, seqnum, "now")
             ELSE IF event.retry_again_timeout_usec > 0
                     /\ event.retry_again_timeout_usec <= now_usec
             THEN requeue_fail(m, seqnum, "ETIMEDOUT")
             ELSE IF ~timer_ok THEN requeue_fail(m, seqnum, "timer")
             ELSE [m EXCEPT !.events[i].timeout_warning_event = FALSE,
                            !.events[i].timeout_event = FALSE,
                            !.events[i].retry_again_next_usec =
                                now_usec + EVENT_RETRY_INTERVAL_USEC,
                            !.events[i].retry_again_timeout_usec =
                                now_usec + EVENT_RETRY_TIMEOUT_USEC,
                            !.events[i].retry_event_source = TRUE,
                            !.events[i].worker = 0,
                            !.events[i].state = EVENT_QUEUED,
                            !.workers = IF w # 0 THEN [@ EXCEPT ![w].event = 0] ELSE @]

\* A plausible slip: the requeued event is put at the tail of the queue.
event_requeue_to_tail(m, seqnum, now_ok, timer_ok) ==
    IF seqnum = 0 THEN Abort(m)
    ELSE LET i == IndexOf(m.events, seqnum)
             event == m.events[i]
             w == event.worker
         IN  IF ~now_ok THEN requeue_fail(m, seqnum, "now")
             ELSE IF event.retry_again_timeout_usec > 0
                     /\ event.retry_again_timeout_usec <= now_usec
             THEN requeue_fail(m, seqnum, "ETIMEDOUT")
             ELSE IF ~timer_ok THEN requeue_fail(m, seqnum, "timer")
             ELSE [m EXCEPT !.events =
                                Append(RemoveAt(@, i),
                                       [event EXCEPT !.timeout_warning_event = FALSE,
                                                     !.timeout_event = FALSE,
                                                     !.retry_again_next_usec =
                                                         now_usec + EVENT_RETRY_INTERVAL_USEC,
                                                     !.retry_again_timeout_usec =
                                                         IF @ = 0
                                                         THEN now_usec + EVENT_RETRY_TIMEOUT_USEC
                                                         ELSE @,
                                                     !.retry_event_source = TRUE,
                                                     !.worker = 0,
                                                     !.state = EVENT_QUEUED]),
                            !.workers = IF w # 0 THEN [@ EXCEPT ![w].event = 0] ELSE @]

event_requeue(m, seqnum, now_ok, timer_ok) ==
    IF seqnum = 0 THEN Abort(m)
    ELSE LET i == IndexOf(m.events, seqnum)
             event == m.events[i]
             w == event.worker
         IN  IF ~now_ok THEN requeue_fail(m, seqnum, "now")
             ELSE IF event.retry_again_timeout_usec > 0
                     /\ event.retry_again_timeout_usec <= now_usec
             THEN requeue_fail(m, seqnum, "ETIMEDOUT")
             ELSE IF ~timer_ok THEN requeue_fail(m, seqnum, "timer")
             ELSE [m EXCEPT !.events[i].timeout_warning_event = FALSE,
                            !.events[i].timeout_event = FALSE,
                            !.events[i].retry_again_next_usec =
                                now_usec + EVENT_RETRY_INTERVAL_USEC,
                            !.events[i].retry_again_timeout_usec =
                                IF @ = 0 THEN now_usec + EVENT_RETRY_TIMEOUT_USEC ELSE @,
                            !.events[i].retry_event_source = TRUE,
                            !.events[i].worker = 0,
                            !.events[i].state = EVENT_QUEUED,
                            !.workers = IF w # 0 THEN [@ EXCEPT ![w].event = 0] ELSE @]

\* A plausible slip: the state of the event is not looked at.
event_queue_assume_block_device_unlocked_any_state(evs, dev) ==
    IF dev.disk = NULL THEN evs
    ELSE [i \in 1..Len(evs) |->
            IF /\ evs[i].retry_again_next_usec # 0
               /\ evs[i].disk # NULL
               /\ evs[i].disk = dev.disk
            THEN [evs[i] EXCEPT !.retry_again_next_usec = 0]
            ELSE evs[i]]

\* event_queue_assume_block_device_unlocked(): forget the retry time of the
\* queued events of the same whole disk.
event_queue_assume_block_device_unlocked(evs, dev) ==
    IF dev.disk = NULL THEN evs
    ELSE [i \in 1..Len(evs) |->
            IF /\ evs[i].state = EVENT_QUEUED
               /\ evs[i].retry_again_next_usec # 0
               /\ evs[i].disk # NULL
               /\ evs[i].disk = dev.disk
            THEN [evs[i] EXCEPT !.retry_again_next_usec = 0]
            ELSE evs[i]]

\* A plausible slip: the device's action is not asked for.
insert_ok_no_action(dev) == dev.seqnum_ok /\ dev.devpath # NULL

\* event_queue_insert(): r < 0 if the device lacks a mandatory field.
insert_ok(dev) == dev.seqnum_ok /\ dev.action_ok /\ dev.devpath # NULL

\* A plausible slip: LIST_PREPEND where LIST_APPEND is meant.
event_queue_insert_prepend(evs, dev, seqnum) == <<Event(dev, seqnum)>> \o evs

event_queue_insert(evs, dev, seqnum) == Append(evs, Event(dev, seqnum))

\* What on_uevent() does with the device: event_queue_insert(), which
\* creates the marker file when the queue is empty (its creation is taken to
\* succeed), and then event_queue_assume_block_device_unlocked(); or, for a
\* device that lacks a mandatory field, nothing but the error (log.r).  file
\* says whether /run/udev/queue exists.
on_uevent_do(m, file, dev, seqnum) ==
    IF insert_ok(dev)
    THEN [m |-> [m EXCEPT !.events = event_queue_assume_block_device_unlocked(
                                         event_queue_insert(@, dev, seqnum), dev)],
          queue_file |-> IF m.events = <<>> THEN TRUE ELSE file]
    ELSE [m |-> [m EXCEPT !.log.r = -1], queue_file |-> file]


(***************************************************************************)
(* The state machine.  stop_exec_queue is set by the control interface,    *)
(* which is outside udev-manager.c; event_queue_start() only reads it, and *)
(* it keeps the value manager_new() gives it.  fn_a, fn_b and fn_r are the *)
(* arguments and the result of the devpath_conflict() call of PathSpec.    *)
(***************************************************************************)
M == [events |-> events, workers |-> workers, procs |-> procs, orphans |-> {},
      abort |-> FALSE, log |-> NoLog]

\* What a handler leaves behind.
Store(m) ==
    /\ events' = m.events
    /\ workers' = m.workers
    /\ procs' = m.procs
    /\ crashed' = m.abort

\* on_post() is a post event source (sd_event_add_post): the loop runs it
\* once after it has dispatched any other source, and not otherwise; post
\* says that it is due.
Commit(m) ==
    /\ Store(m)
    /\ post' = TRUE

Running == ~exited /\ ~crashed

Init ==
    /\ events = <<>>
    /\ workers = <<>>
    /\ procs = <<>>
    /\ notify = <<>>
    /\ now_usec = 1
    /\ ticks = 0
    /\ kseq = 0
    /\ children_max \in 1..MaxChildren
    /\ exit = FALSE
    /\ stop_exec_queue = FALSE
    /\ queue_file = FALSE
    /\ exited = FALSE
    /\ crashed = FALSE
    /\ post = FALSE
    /\ fn_a = NULL
    /\ fn_b = NULL
    /\ fn_r = <<>>

\* on_uevent(): the kernel announces one of the devices in devs; sequence
\* numbers only grow, and max bounds the uevents of one behaviour.
on_uevent_upto(devs, max) ==
    /\ Running /\ ~exit
    /\ kseq < max
    /\ \E dev \in devs :
          LET o == on_uevent_do(M, queue_file, dev, kseq + 1)
          IN  /\ kseq' = IF insert_ok(dev) THEN kseq + 1 ELSE kseq
              /\ queue_file' = o.queue_file
              /\ Commit(o.m)
    /\ UNCHANGED <<notify, now_usec, ticks, children_max, exit, stop_exec_queue,
                   exited, fn_a, fn_b, fn_r>>

on_uevent_from(devs) == on_uevent_upto(devs, MaxEvents)

\* The devices a uevent may be about, complete or not.
AllDevices == Devices \cup BadDevices

on_uevent == on_uevent_from(AllDevices)

\* A dispatch in which every call the manager made succeeded: no errno, no
\* failed time lookup, no worker killed for refusing a device.
NoFailure(m) ==
    /\ m.log.errno = "none"
    /\ m.log.errs = {}
    /\ \A s \in m.log.signals : s[2] # "SIGKILL"

\* A plausible slip: the loop is left as soon as the manager is exiting.
on_post_empty_exit_early(m, file, unlink_ok) ==
    [queue_file |-> IF unlink_ok THEN FALSE ELSE file,
     exited |-> exit]

\* A plausible slip: the marker file is not removed.
on_post_empty_keep_file(m, file, unlink_ok) ==
    [queue_file |-> file,
     exited |-> m.workers = <<>> /\ exit]

\* on_post() with an empty queue: unlink /run/udev/queue (file says whether
\* it exists; a failure other than ENOENT is logged and ignored, and leaves
\* the file), then arm the idle-worker cleanup if a worker is left, or else
\* call sd_event_exit() if the manager is exiting.
on_post_empty(m, file, unlink_ok) ==
    [queue_file |-> IF unlink_ok THEN FALSE ELSE file,
     exited |-> m.workers = <<>> /\ exit]

\* on_post(): runs after the other handlers; starts queued events, or, with
\* an empty queue, removes the marker file, arms the idle-worker cleanup or
\* leaves the event loop.  reloads holds the answers manager_reload() may
\* give to "did the rules change"; may_fail says whether a call made by the
\* handler may fail.
on_post_with(reloads, may_fail) ==
    /\ Running
    /\ post
    /\ post' = FALSE
    /\ IF events # <<>>
       THEN /\ \E kill_workers \in reloads :
                 \E o \in event_queue_start(M, kill_workers) :
                    /\ may_fail \/ NoFailure(o.m)
                    /\ Store(o.m)
            /\ UNCHANGED <<queue_file, exited>>
       ELSE \E unlink_ok \in IF may_fail THEN BOOLEAN ELSE {TRUE} :
               LET o == on_post_empty(M, queue_file, unlink_ok)
               IN  /\ queue_file' = o.queue_file
                   /\ exited' = o.exited
                   /\ Store(M)
    /\ UNCHANGED <<notify, now_usec, ticks, kseq, children_max, exit, stop_exec_queue,
                   fn_a, fn_b, fn_r>>

on_post == on_post_with(BOOLEAN, TRUE)

\* A plausible slip: the report makes every worker idle again.
worker_settle_always_idle(m, pid) ==
    IF m.abort THEN m
    ELSE IF m.workers[pid].state = WORKER_KILLING
    THEN kill([m EXCEPT !.workers[pid].state = WORKER_KILLED], pid, "SIGTERM")
    ELSE [m EXCEPT !.workers[pid].state = WORKER_IDLE]

\* The worker's state after its final report.
worker_settle(m, pid) ==
    IF m.abort THEN m
    ELSE IF m.workers[pid].state = WORKER_KILLING
    THEN kill([m EXCEPT !.workers[pid].state = WORKER_KILLED], pid, "SIGTERM")
    ELSE IF m.workers[pid].state # WORKER_KILLED
    THEN [m EXCEPT !.workers[pid].state = WORKER_IDLE]
    ELSE m

WatchReports == {"INOTIFY_WATCH_ADD", "INOTIFY_WATCH_REMOVE"}

\* A plausible slip: the early return after a watch report is missing.
on_notify_do_no_return(m, pid, msg, now_ok, timer_ok) ==
    IF pid \notin DOMAIN m.workers THEN m
    ELSE LET seqnum == m.workers[pid].event
         IN  IF msg \in WatchReports /\ seqnum = 0 THEN Abort(m)
             ELSE IF msg = "TRY_AGAIN"
             THEN worker_settle(event_requeue(m, seqnum, now_ok, timer_ok), pid)
             ELSE worker_settle(event_free(m, seqnum), pid)

\* What on_notify() does with the datagram msg of the process pid; now_ok
\* and timer_ok are the outcomes of the two calls of event_requeue() that
\* may fail.
on_notify_do(m, pid, msg, now_ok, timer_ok) ==
    IF pid \notin DOMAIN m.workers THEN m
    ELSE LET seqnum == m.workers[pid].event
         IN  IF msg \in WatchReports
             THEN IF seqnum = 0 THEN Abort(m) ELSE m
             ELSE IF msg = "TRY_AGAIN"
             THEN worker_settle(event_requeue(m, seqnum, now_ok, timer_ok), pid)
             ELSE worker_settle(event_free(m, seqnum), pid)

\* on_notify(): one datagram of the notify socket.  oks holds the outcomes
\* the time lookup and the arming of the retry timer may have.
on_notify_with(oks) ==
    /\ Running
    /\ notify # <<>>
    /\ notify' = Tail(notify)
    /\ LET pid == Head(notify).pid
           msg == Head(notify).msg
       IN  IF pid \in DOMAIN workers /\ msg = "TRY_AGAIN"
           THEN \E now_ok \in oks, timer_ok \in oks :
                   Commit(on_notify_do(M, pid, msg, now_ok, timer_ok))
           ELSE Commit(on_notify_do(M, pid, msg, TRUE, TRUE))
    /\ UNCHANGED <<now_usec, ticks, kseq, children_max, exit, stop_exec_queue, queue_file,
                   exited, fn_a, fn_b, fn_r>>

on_notify == on_notify_with(BOOLEAN)

\* si_code and si_status of the siginfo_t handed to on_sigchld().
ExitCauses == {"exited_0", "exited_nonzero", "killed", "dumped"}

\* A plausible slip: every CLD_EXITED is taken for a clean exit.
on_sigchld_do_exited_is_clean(m, pid, si) ==
    LET seqnum == m.workers[pid].event
        reaped == [m EXCEPT !.procs = Without(@, pid)]
        noted == IF si \in {"exited_0", "exited_nonzero"} \/ seqnum = 0 THEN reaped
                 ELSE [reaped EXCEPT !.log.errno = si, !.log.bcast = @ \cup {seqnum}]
    IN  worker_free(noted, pid)

\* What on_sigchld() does for the worker pid: after a clean exit, or with no
\* event in flight, nothing but the log; otherwise the exit status or the
\* signal is put on the event's device (log.errno) and the device is
\* broadcast; in every case worker_free() runs when the handler returns.
on_sigchld_do(m, pid, si) ==
    LET seqnum == m.workers[pid].event
        reaped == [m EXCEPT !.procs = Without(@, pid)]
        noted == IF si = "exited_0" \/ seqnum = 0 THEN reaped
                 ELSE [reaped EXCEPT !.log.errno = si, !.log.bcast = @ \cup {seqnum}]
    IN  worker_free(noted, pid)

\* on_sigchld(): a worker process has exited; si is how.
on_sigchld ==
    /\ Running
    /\ \E pid \in DOMAIN workers, si \in ExitCauses :
          /\ procs[pid] = "zombie"
          /\ Commit(on_sigchld_do(M, pid, si))
    /\ UNCHANGED <<notify, now_usec, ticks, kseq, children_max, exit, stop_exec_queue,
                   queue_file, exited, fn_a, fn_b, fn_r>>

\* A plausible slip: the timed-out event is given up at once.
on_event_timeout_do_free(m, i) ==
    LET pid == m.events[i].worker
    IN  IF pid = 0 THEN Abort(m)
        ELSE event_free(kill([m EXCEPT !.workers[pid].state = WORKER_KILLED],
                             pid, "timeout_signal"),
                        m.events[i].seqnum)

\* What on_event_timeout() does for the event at position i.
on_event_timeout_do(m, i) ==
    LET pid == m.events[i].worker
    IN  IF pid = 0 THEN Abort(m)
        ELSE kill([m EXCEPT !.workers[pid].state = WORKER_KILLED], pid, "timeout_signal")

\* on_event_timeout(): the hard timeout of a running event.
on_event_timeout ==
    /\ Running
    /\ \E i \in 1..Len(events) :
          /\ events[i].timeout_event
          /\ Commit(on_event_timeout_do(M, i))
    /\ UNCHANGED <<notify, now_usec, ticks, kseq, children_max, exit, stop_exec_queue,
                   queue_file, exited, fn_a, fn_b, fn_r>>

\* on_event_timeout_warning(): only logs.
on_event_timeout_warning ==
    /\ Running
    /\ \E i \in 1..Len(events) :
          /\ events[i].timeout_warning_event
          /\ Commit(IF events[i].worker = 0 THEN Abort(M) ELSE M)
    /\ UNCHANGED <<notify, now_usec, ticks, kseq, children_max, exit, stop_exec_queue,
                   queue_file, exited, fn_a, fn_b, fn_r>>

\* on_event_retry(): does nothing; on_post will look at the queue.
on_event_retry ==
    /\ Running
    /\ \E i \in 1..Len(events) :
          /\ events[i].retry_event_source /\ events[i].state = EVENT_QUEUED
          /\ Commit(M)
    /\ UNCHANGED <<notify, now_usec, ticks, kseq, children_max, exit, stop_exec_queue,
                   queue_file, exited, fn_a, fn_b, fn_r>>

\* on_kill_workers_event(): the idle-worker cleanup timer.  on_post arms it
\* when it finds the queue empty and some worker left, and it fires three
\* seconds later, whatever the queue holds then.
on_kill_workers_event ==
    /\ Running
    /\ workers # <<>>
    /\ Commit(manager_kill_workers(M, FALSE))
    /\ UNCHANGED <<notify, now_usec, ticks, kseq, children_max, exit, stop_exec_queue,
                   queue_file, exited, fn_a, fn_b, fn_r>>

\* on_sighup(): manager_reload(force); the workers are asked to stop when
\* the rules or the configuration changed.
on_sighup ==
    /\ Running
    /\ workers # <<>>
    /\ Commit(manager_kill_workers(M, FALSE))
    /\ UNCHANGED <<notify, now_usec, ticks, kseq, children_max, exit, stop_exec_queue,
                   queue_file, exited, fn_a, fn_b, fn_r>>

\* A plausible slip: every event is discarded, the RUNNING ones included.
manager_exit_all(m) == manager_kill_workers(event_queue_cleanup(m, "EVENT_UNDEF"), TRUE)

\* on_sigterm(): manager_exit().
manager_exit(m) == manager_kill_workers(event_queue_cleanup(m, EVENT_QUEUED), TRUE)

on_sigterm ==
    /\ Running
    /\ exit' = TRUE
    /\ Commit(manager_exit(M))
    /\ UNCHANGED <<notify, now_usec, ticks, kseq, children_max, stop_exec_queue,
                   queue_file, exited, fn_a, fn_b, fn_r>>

(***************************************************************************)
(* The environment: worker processes and the clock.                        *)
(***************************************************************************)
Reports == {"INOTIFY_WATCH_ADD", "TRY_AGAIN", "DONE"}
FinalReports == {"TRY_AGAIN", "DONE"}

\* The events that have been requeued and are still in the queue, apart
\* from the one with this seqnum.
OthersRetrying(seqnum) ==
    {i \in 1..Len(events) : /\ events[i].retry_again_timeout_usec > 0
                            /\ events[i].seqnum # seqnum}

\* A worker process sends a datagram about the device it is handling; after
\* a final report it waits for the next device.
send(pid, msg) ==
    /\ Len(notify) < MaxNotify
    /\ procs[pid] = "work"
    /\ notify' = Append(notify, [pid |-> pid, msg |-> msg])
    /\ procs' = IF msg \in FinalReports THEN [procs EXCEPT ![pid] = "wait"] ELSE procs
    /\ UNCHANGED <<events, workers, now_usec, ticks, kseq, children_max, exit,
                   stop_exec_queue, queue_file, exited, crashed, post,
                   fn_a, fn_b, fn_r>>

MayRetry(pid) == Cardinality(OthersRetrying(workers[pid].event)) < MaxRetrying

worker_report(msgs) ==
    \E pid \in DOMAIN procs, msg \in msgs :
        /\ msg = "TRY_AGAIN" => MayRetry(pid)
        /\ send(pid, msg)

\* A worker that finds its device locked whenever it is given one.
worker_report_locked ==
    \E pid \in DOMAIN procs :
        send(pid, IF MayRetry(pid) THEN "TRY_AGAIN" ELSE "DONE")

\* A worker process exits (by itself, or killed).
worker_exit(sts) ==
    /\ \E pid \in DOMAIN procs :
          /\ procs[pid] \in sts
          /\ procs' = [procs EXCEPT ![pid] = "zombie"]
    /\ UNCHANGED <<events, workers, notify, now_usec, ticks, kseq, children_max,
                   exit, stop_exec_queue, queue_file, exited, crashed, post,
                   fn_a, fn_b, fn_r>>

\* The clock advances by one retry interval or by one retry window; ticks
\* counts the steps of each size.  The code reads the clock only to compare
\* it with the retry times it stored, so only the steps that can change the
\* outcome of a comparison are taken: an interval while an event waits for
\* its retry time, a window while an event's deadline lies ahead.
SmallTicks(n) == n % (MaxTicks + 1)
BigTicks(n) == n \div (MaxTicks + 1)

tick ==
    /\ \/ /\ SmallTicks(ticks) < MaxTicks
          /\ \E i \in 1..Len(events) : events[i].retry_again_next_usec > now_usec
          /\ ticks' = ticks + 1
          /\ now_usec' = now_usec + EVENT_RETRY_INTERVAL_USEC
       \/ /\ BigTicks(ticks) < MaxBigTicks
          /\ \E i \in 1..Len(events) : events[i].retry_again_timeout_usec > now_usec
          /\ ticks' = ticks + MaxTicks + 1
          /\ now_usec' = now_usec + EVENT_RETRY_TIMEOUT_USEC
    /\ UNCHANGED <<events, workers, procs, notify, kseq, children_max, exit,
                   stop_exec_queue, queue_file, exited, crashed, post,
                   fn_a, fn_b, fn_r>>

Next ==
    \/ on_uevent
    \/ on_post
    \/ on_notify
    \/ on_sigchld
    \/ on_event_timeout
    \/ on_event_timeout_warning
    \/ on_event_retry
    \/ on_kill_workers_event
    \/ on_sighup
    \/ on_sigterm
    \/ worker_report(Reports)
    \/ worker_exit({"work", "wait"})
    \/ tick

Spec == Init /\ [][Next]_vars

(***************************************************************************)
(* The manager with block devices only and workers that always find the   *)
(* device locked, with no failing call and no signal, and with every       *)
(* handler and the clock getting their turn.                               *)
(***************************************************************************)
BlockDevices == {dev \in Devices : dev.disk # NULL}

RetryNext ==
    \/ on_uevent_from(BlockDevices)
    \/ on_post_with({FALSE}, FALSE)
    \/ on_notify_with({TRUE})
    \/ on_event_retry
    \/ worker_report_locked
    \/ tick

RetrySpec ==
    /\ Init
    /\ [][RetryNext]_vars
    /\ WF_vars(on_post_with({FALSE}, FALSE))
    /\ WF_vars(on_notify_with({TRUE}))
    /\ WF_vars(on_event_retry)
    /\ WF_vars(worker_report_locked)
    /\ WF_vars(tick)

(***************************************************************************)
(* The manager with three uevents, for a parent device, its child and an   *)
(* unrelated device, with calls that may fail and workers that finish,     *)
(* find the device locked, or exit.                                        *)
(***************************************************************************)
OrderDevices ==
    { Dev(<<"/", "a">>, NULL, <<"b", "1">>, <<"s", "d", "a">>, <<"s", "d", "a">>),
      Dev(<<"/", "a", "/", "b">>, NULL, <<"b", "2">>, <<"s", "d", "a", "1">>, <<"s", "d", "a">>),
      Dev(<<"/", "b">>, NULL, NULL, NULL, NULL) }

OrderNext ==
    \/ on_uevent_upto(OrderDevices, MaxOrderEvents)
    \/ on_post_with({FALSE}, TRUE)
    \/ on_notify_with({TRUE})
    \/ on_sigchld
    \/ on_event_retry
    \/ worker_report(FinalReports)
    \/ worker_exit({"work"})
    \/ tick

OrderSpec == Init /\ [][OrderNext]_vars

(***************************************************************************)
(* The manager left to itself after the uevents of a disk and its          *)
(* partition: no signal, no request to stop the queue, calls that may      *)
(* fail, and workers that finish, find the device locked, hang or exit.    *)
(* The fairness conditions are what the event loop and the processes       *)
(* provide: the loop dispatches every source that is pending (a datagram,  *)
(* an exited child, an armed timer, on_post once it is due), the clock     *)
(* advances, a worker process that is handling a device reports or exits,  *)
(* a killed process exits, and a pass that is tried again and again is     *)
(* not failed by the system every time.                                    *)
(***************************************************************************)
LiveDevices == {dev \in OrderDevices : dev.disk # NULL}

\* A retry time the bounded clock can still reach: the window that closes
\* the retries is ahead, or the event's deadline is already set.
CanWait(pid) ==
    \/ BigTicks(ticks) < MaxBigTicks
    \/ \E i \in 1..Len(events) : /\ events[i].seqnum = workers[pid].event
                                 /\ events[i].retry_again_timeout_usec > 0

\* The final report of a worker process.
worker_report_final ==
    \E pid \in DOMAIN procs, msg \in FinalReports :
        /\ msg = "TRY_AGAIN" => MayRetry(pid) /\ CanWait(pid)
        /\ send(pid, msg)

\* The process of a worker the manager has killed exits.
worker_killed_exit ==
    /\ \E pid \in DOMAIN workers :
          /\ workers[pid].state = WORKER_KILLED
          /\ procs[pid] \in {"work", "wait"}
          /\ procs' = [procs EXCEPT ![pid] = "zombie"]
    /\ UNCHANGED <<events, workers, notify, now_usec, ticks, kseq, children_max,
                   exit, stop_exec_queue, queue_file, exited, crashed, post,
                   fn_a, fn_b, fn_r>>

LiveNext ==
    \/ on_uevent_from(LiveDevices)
    \/ on_post_with({FALSE}, TRUE)
    \/ on_notify_with({TRUE})
    \/ on_sigchld
    \/ on_event_timeout
    \/ on_event_retry
    \/ worker_report_final
    \/ worker_exit({"work"})
    \/ worker_killed_exit
    \/ tick

LiveSpec ==
    /\ Init
    /\ [][LiveNext]_vars
    /\ WF_vars(on_post_with({FALSE}, TRUE))
    /\ SF_vars(on_post_with({FALSE}, FALSE))
    /\ WF_vars(on_notify_with({TRUE}))
    /\ WF_vars(on_sigchld)
    /\ WF_vars(on_event_retry)
    /\ WF_vars(worker_report_final \/ worker_exit({"work"}))
    /\ WF_vars(worker_killed_exit)
    /\ WF_vars(tick)

(***************************************************************************)
(* The manager asked to stop (SIGTERM) at any moment while it handles the  *)
(* uevents of a disk and its partition: no failing call, workers that      *)
(* finish or find the device locked.  The fairness conditions are what the *)
(* event loop and the processes provide: the loop dispatches every source  *)
(* that is pending, the clock advances, and the process of a worker the    *)
(* manager has killed exits.                                               *)
(***************************************************************************)
ShutdownNext ==
    \/ on_uevent_from(LiveDevices)
    \/ on_post_with({FALSE}, FALSE)
    \/ on_notify_with({TRUE})
    \/ on_sigchld
    \/ on_event_retry
    \/ on_sigterm
    \/ worker_report_final
    \/ worker_killed_exit
    \/ tick

ShutdownSpec ==
    /\ Init
    /\ [][ShutdownNext]_vars
    /\ WF_vars(on_post_with({FALSE}, FALSE))
    /\ WF_vars(on_notify_with({TRUE}))
    /\ WF_vars(on_sigchld)
    /\ WF_vars(on_event_retry)
    /\ WF_vars(worker_killed_exit)
    /\ WF_vars(tick)

(***************************************************************************)
(* devpath_conflict() on its own: every pair of paths of at most MaxLen    *)
(* characters, or NULL.                                                    *)
(***************************************************************************)
RECURSIVE StringsUpTo(_)
StringsUpTo(n) ==
    IF n = 0 THEN {<<>>}
    ELSE LET shorter == StringsUpTo(n - 1)
         IN  shorter \cup {Append(s, c) : s \in shorter, c \in Alphabet}

Paths == StringsUpTo(MaxLen) \cup {NULL}

PathInit ==
    /\ events = <<>>
    /\ workers = <<>>
    /\ procs = <<>>
    /\ notify = <<>>
    /\ now_usec = 1
    /\ ticks = 0
    /\ kseq = 0
    /\ children_max = 1
    /\ exit = FALSE
    /\ stop_exec_queue = FALSE
    /\ queue_file = FALSE
    /\ exited = FALSE
    /\ crashed = FALSE
    /\ post = FALSE
    /\ fn_a \in Paths
    /\ fn_b \in Paths
    /\ fn_r = <<>>

call_devpath_conflict ==
    /\ fn_r = <<>>
    /\ fn_r' = <<devpath_conflict(fn_a, fn_b)>>
    /\ UNCHANGED <<events, workers, procs, notify, now_usec, ticks, kseq, children_max,
                   exit, stop_exec_queue, queue_file, exited, crashed, post, fn_a, fn_b>>

PathNext == call_devpath_conflict

PathSpec == PathInit /\ [][PathNext]_vars

(***************************************************************************)
(* Vocabulary of the properties.                                           *)
(***************************************************************************)
Min(a, b) == IF a < b THEN a ELSE b

QueuedIdx(evs) == {i \in 1..Len(evs) : evs[i].state = EVENT_QUEUED}
RunningIdx(evs) == {i \in 1..Len(evs) : evs[i].state = EVENT_RUNNING}

SamePresent(x, y) == x # NULL /\ y # NULL /\ x = y

\* The shorter path ends where the longer one has a '/'.
BoundedPrefix(s, l) ==
    /\ Len(s) < Len(l)
    /\ SubSeq(l, 1, Len(s)) = s
    /\ l[Len(s) + 1] = "/"

PathsConflict(a, b) ==
    /\ a # NULL
    /\ b # NULL
    /\ (a = b \/ BoundedPrefix(a, b) \/ BoundedPrefix(b, a))

\* Equal devpath, bounded prefix, equal device id, equal devnode.
ListedConflict(e1, e2) ==
    \/ PathsConflict(e1.devpath, e2.devpath)
    \/ SamePresent(e1.id, e2.id)
    \/ SamePresent(e1.devnode, e2.devnode)

\* The conflict of two events as the specification defines it: the listed
\* tests, the paths compared with the previous paths as well, and an absent
\* path or identifier conflicting with nothing.
SpecConflict(earlier, e) ==
    \/ SamePresent(earlier.id, e.id)
    \/ PathsConflict(e.devpath, earlier.devpath)
    \/ PathsConflict(e.devpath, earlier.devpath_old)
    \/ PathsConflict(e.devpath_old, earlier.devpath)
    \/ SamePresent(e.devnode, earlier.devnode)

InBackoff(e) == e.retry_again_next_usec > now_usec

\* The uncached reference: some earlier event still in the queue conflicts.
HasBlocker(evs, i) ==
    \E j \in 1..Len(evs) : evs[j].seqnum < evs[i].seqnum /\ SpecConflict(evs[j], evs[i])

(***************************************************************************)
(* C1.  Serialization: an event never enters RUNNING while an earlier      *)
(* event that conflicts with it (equal devpath, '/'-bounded prefix, equal  *)
(* device id or equal devnode) is still in the queue, whatever that        *)
(* earlier event's state; so no two conflicting events are RUNNING at the  *)
(* same time.                                                              *)
(***************************************************************************)
C1_NoConflictRunning ==
    \A i \in RunningIdx(events), j \in RunningIdx(events) :
        i # j => ~ListedConflict(events[i], events[j])

C1_EntersRunning(j) ==
    /\ events'[j].state = EVENT_RUNNING
    /\ \E i \in QueuedIdx(events) : events[i].seqnum = events'[j].seqnum

C1_Enter ==
    \A j \in 1..Len(events') :
        C1_EntersRunning(j) =>
            \A k \in 1..Len(events') :
                events'[k].seqnum < events'[j].seqnum
                    => ~ListedConflict(events'[k], events'[j])

C1_Serialization == []C1_NoConflictRunning /\ [][C1_Enter]_vars

\* A later event held back, its blocker cached, by an earlier one that runs.
C1_Witness ==
    \E i \in RunningIdx(events), j \in QueuedIdx(events) :
        /\ events[i].seqnum < events[j].seqnum
        /\ ListedConflict(events[i], events[j])
        /\ events[j].blocker_seqnum = events[i].seqnum

(***************************************************************************)
(* C2.  The worker table never holds more than children_max workers,       *)
(* whatever their state.                                                   *)
(***************************************************************************)
C2_WorkerCount == Cardinality(DOMAIN workers) <= children_max

\* The table is full of busy workers and an event found free of blockers
\* waits for a place.
C2_Witness ==
    /\ Cardinality(DOMAIN workers) = children_max
    /\ \A pid \in DOMAIN workers : workers[pid].state = WORKER_RUNNING
    /\ \E i \in QueuedIdx(events) :
          /\ events[i].blocker_seqnum = events[i].seqnum
          /\ events[i].retry_again_next_usec = 0

(***************************************************************************)
(* C3.  Event/worker links: an event is RUNNING iff it has a worker; the   *)
(* link is mutual; a QUEUED event has no worker, an IDLE worker no event,  *)
(* a RUNNING worker exactly one.                                           *)
(***************************************************************************)
C3_LinkConsistency ==
    /\ \A i \in 1..Len(events) :
          /\ (events[i].state = EVENT_RUNNING) <=> (events[i].worker # 0)
          /\ events[i].worker # 0 =>
                /\ events[i].worker \in DOMAIN workers
                /\ workers[events[i].worker].event = events[i].seqnum
    /\ \A pid \in DOMAIN workers :
          /\ workers[pid].event # 0 =>
                /\ Cardinality(Pos(events, workers[pid].event)) = 1
                /\ events[IndexOf(events, workers[pid].event)].worker = pid
          /\ workers[pid].state = WORKER_IDLE => workers[pid].event = 0
          /\ workers[pid].state = WORKER_RUNNING => workers[pid].event # 0

\* One worker runs an event, another has gone idle after a requeue.
C3_Witness ==
    /\ \E pid \in DOMAIN workers :
          /\ workers[pid].state = WORKER_RUNNING
          /\ workers[pid].event # 0
    /\ \E pid \in DOMAIN workers : workers[pid].state = WORKER_IDLE
    /\ \E i \in QueuedIdx(events) : events[i].retry_again_timeout_usec > 0

(***************************************************************************)
(* C4.  Retry bound: when every worker given the event reports TRY_AGAIN   *)
(* and time keeps advancing, an event whose retry window ends within the   *)
(* clock's range is eventually removed from the queue, and it leaves the   *)
(* queue by the ETIMEDOUT path of a TRY_AGAIN report.                      *)
(***************************************************************************)
ClockEnd == 1 + MaxBigTicks * EVENT_RETRY_TIMEOUT_USEC

C4_Retrying(seqnum) ==
    \E i \in 1..Len(events) :
        /\ events[i].seqnum = seqnum
        /\ events[i].retry_again_timeout_usec > 0
        /\ events[i].retry_again_timeout_usec <= ClockEnd

C4_Gone(seqnum) == seqnum \notin Seqnums(events)

C4_LeavesByTimeout ==
    \A seqnum \in 1..MaxEvents :
        (C4_Retrying(seqnum) /\ seqnum \notin Seqnums(events')) =>
            /\ notify # <<>>
            /\ Head(notify).msg = "TRY_AGAIN"
            /\ workers[Head(notify).pid].event = seqnum
            /\ event_requeue(M, seqnum, TRUE, TRUE).log.errno = "ETIMEDOUT"
            /\ seqnum \in event_requeue(M, seqnum, TRUE, TRUE).log.bcast

C5_TryAgainFor ==
    IF /\ ~crashed /\ ~exited
       /\ notify # <<>>
       /\ Head(notify).msg = "TRY_AGAIN"
       /\ Head(notify).pid \in DOMAIN workers
    THEN workers[Head(notify).pid].event
    ELSE 0

C5_PastDeadline(seqnum) ==
    LET e == events[IndexOf(events, seqnum)]
    IN  e.retry_again_timeout_usec > 0 /\ e.retry_again_timeout_usec <= now_usec

C5_Abandoned(m, seqnum, errno) ==
    /\ seqnum \notin Seqnums(m.events)
    /\ m.log.errno = errno
    /\ seqnum \in m.log.bcast

C5_Requeued(m, seqnum) ==
    /\ seqnum \in Seqnums(m.events)
    /\ LET e == m.events[IndexOf(m.events, seqnum)]
       IN  /\ e.state = EVENT_QUEUED
           /\ e.worker = 0
           /\ e.retry_again_next_usec = now_usec + EVENT_RETRY_INTERVAL_USEC
           /\ e.retry_again_timeout_usec > now_usec

\* C5 as stated: at or after the deadline the report removes the event with
\* ETIMEDOUT and a broadcast; before the deadline, or with none set, the
\* report always requeues the event.
C5_Original ==
    C5_TryAgainFor # 0 =>
        \A now_ok \in BOOLEAN, timer_ok \in BOOLEAN :
            LET m == event_requeue(M, C5_TryAgainFor, now_ok, timer_ok)
            IN  IF C5_PastDeadline(C5_TryAgainFor)
                THEN C5_Abandoned(m, C5_TryAgainFor, "ETIMEDOUT")
                ELSE C5_Requeued(m, C5_TryAgainFor)

C5_Outcome ==
    C5_TryAgainFor # 0 =>
        \A now_ok \in BOOLEAN, timer_ok \in BOOLEAN :
            LET m == event_requeue(M, C5_TryAgainFor, now_ok, timer_ok)
            IN  IF ~now_ok
                THEN C5_Abandoned(m, C5_TryAgainFor, "now")
                ELSE IF C5_PastDeadline(C5_TryAgainFor)
                THEN C5_Abandoned(m, C5_TryAgainFor, "ETIMEDOUT")
                ELSE IF ~timer_ok
                THEN C5_Abandoned(m, C5_TryAgainFor, "timer")
                ELSE C5_Requeued(m, C5_TryAgainFor)

\* The handler leaves the queue as event_requeue() made it.
C5_Applied ==
    (C5_TryAgainFor # 0 /\ notify' = Tail(notify)) =>
        \E now_ok \in BOOLEAN, timer_ok \in BOOLEAN :
            events' = event_requeue(M, C5_TryAgainFor, now_ok, timer_ok).events

\* An event that has left the queue never comes back.
C5_NeverAgain ==
    \A seqnum \in 1..kseq :
        seqnum \notin Seqnums(events) => seqnum \notin Seqnums(events')

\* C5, amended: provided the clock can be read, a TRY_AGAIN report at or
\* after the deadline removes the event with ETIMEDOUT and a broadcast, and
\* the event is never queued or running again; a report before the deadline
\* (or with none set) requeues the event provided the clock can be read and
\* the retry timer armed, and otherwise removes it with that error and a
\* broadcast.
C5_Amended == []C5_Outcome /\ [][C5_Applied /\ C5_NeverAgain]_vars

\* A TRY_AGAIN report waits to be read and the event's deadline has passed.
C5_Witness ==
    /\ C5_TryAgainFor # 0
    /\ C5_PastDeadline(C5_TryAgainFor)

(***************************************************************************)
(* C6.  The cached analysis against the uncached reference: for a QUEUED   *)
(* event not in an active backoff, event_is_blocked() says blocked iff an  *)
(* earlier conflicting event is still in the queue.                        *)
(***************************************************************************)
C6_Original ==
    (~crashed /\ ~exited) =>
        \A i \in QueuedIdx(events) :
            ~InBackoff(events[i]) =>
                ((event_is_blocked(events, i, TRUE, now_usec).r > 0)
                    <=> HasBlocker(events, i))

(***************************************************************************)
(* C7.  Idempotence: a second event_is_blocked() on the queue the first    *)
(* call left, at the same time, gives the same result and leaves the       *)
(* cached blocker as it is.                                                *)
(***************************************************************************)
C7_Idempotent ==
    \A i \in QueuedIdx(events), now_ok \in BOOLEAN :
        LET first == event_is_blocked(events, i, now_ok, now_usec)
            second == event_is_blocked(first.events, i, now_ok, now_usec)
        IN  /\ ~first.abort /\ ~second.abort
            /\ second.r = first.r
            /\ second.events = first.events

\* The first call scans, finds an earlier conflicting event and caches it.
C7_Witness ==
    \E i \in QueuedIdx(events) :
        LET first == event_is_blocked(events, i, TRUE, now_usec)
        IN  /\ events[i].blocker_seqnum = 0
            /\ first.r > 0
            /\ first.events[i].blocker_seqnum \in Seqnums(events) \ {events[i].seqnum}

(***************************************************************************)
(* C8.  devpath_conflict(a, b) is true exactly when both paths are present *)
(* and equal or one a '/'-bounded prefix of the other; it is symmetric.    *)
(***************************************************************************)
C8_BoundaryAware ==
    fn_r # <<>> =>
        /\ fn_r[1] = PathsConflict(fn_a, fn_b)
        /\ fn_r[1] = devpath_conflict(fn_b, fn_a)

\* "/a" against "/ab": a prefix, and no conflict.
C8_Witness ==
    /\ fn_a = <<"/", "a">>
    /\ fn_b = <<"/", "a", "b">>
    /\ fn_r = <<FALSE>>

(***************************************************************************)
(* C9.  Bounded, work-conserving dispatch: from no workers, a pass over k  *)
(* mutually non-conflicting events leaves min(children_max, k) RUNNING;    *)
(* and after a pass without failure no unblocked QUEUED event is left      *)
(* while a worker is IDLE or the table has room.                           *)
(***************************************************************************)
C9_Independent(evs) ==
    \A i \in 1..Len(evs), j \in 1..Len(evs) :
        i < j => ~SpecConflict(evs[i], evs[j])

C9_Passes ==
    IF ~crashed /\ ~exited /\ ~exit /\ ~stop_exec_queue /\ events # <<>>
    THEN {o \in UNION {event_queue_start(M, kill_workers) : kill_workers \in BOOLEAN} :
             NoFailure(o.m) /\ ~o.m.abort}
    ELSE {}

C9_Unblocked(m, i) ==
    /\ m.events[i].state = EVENT_QUEUED
    /\ ~InBackoff(m.events[i])
    /\ ~HasBlocker(m.events, i)

C9_HasRoom(m) ==
    \/ IdleWorkers(m) # {}
    \/ Cardinality(DOMAIN m.workers) < children_max

C9_Original ==
    \A o \in C9_Passes :
        /\ (/\ workers = <<>>
            /\ QueuedIdx(events) = 1..Len(events)
            /\ \A i \in 1..Len(events) : ~InBackoff(events[i])
            /\ C9_Independent(events))
              => Cardinality(RunningIdx(o.m.events)) = Min(children_max, Len(events))
        /\ C9_HasRoom(o.m) => \A i \in 1..Len(o.m.events) : ~C9_Unblocked(o.m, i)

(***************************************************************************)
(* C10.  A hand-off that fails.                                            *)
(***************************************************************************)
C10_Refused(o) == {pid \in DOMAIN workers : <<pid, "SIGKILL">> \in o.m.log.signals}

\* The calls of event_run() a dispatch pass can make in this state, with
\* their outcomes, in which some idle worker refused the device.
C10_Failed ==
    IF ~crashed /\ ~exited /\ ~exit /\ ~stop_exec_queue
    THEN UNION {{[i |-> i, o |-> o] : o \in {u \in event_run(M, i) : C10_Refused(u) # {}}} :
                i \in {k \in QueuedIdx(events) :
                         event_is_blocked(events, k, TRUE, now_usec).r = 0}}
    ELSE {}

C10_Killed(x) ==
    \A pid \in C10_Refused(x.o) :
        /\ workers[pid].state = WORKER_IDLE
        /\ x.o.m.workers[pid].state = WORKER_KILLED
        /\ x.o.m.workers[pid].event = 0

C10_Assigned(x) ==
    LET e == x.o.m.events[x.i]
    IN  /\ e.state = EVENT_RUNNING
        /\ e.worker \in DOMAIN x.o.m.workers
        /\ e.worker \notin C10_Refused(x.o)
        /\ x.o.m.workers[e.worker].state = WORKER_RUNNING
        /\ x.o.m.workers[e.worker].event = e.seqnum
        /\ \/ e.worker \in IdleWorkers(M)
           \/ /\ e.worker \notin DOMAIN workers
              /\ C10_Refused(x.o) = IdleWorkers(M)
              /\ Cardinality(DOMAIN workers) < children_max

C10_StaysQueued(x) ==
    LET e == x.o.m.events[x.i]
    IN  /\ e.state = EVENT_QUEUED
        /\ e.worker = 0
        /\ C10_Refused(x.o) = IdleWorkers(M)
        /\ x.o.m.workers = kill_refusing(M, IdleWorkers(M)).workers

\* C10 as stated: the refusing worker is KILLED and the event is assigned to
\* another idle worker or to a new one in the same pass.
C10_Original ==
    \A x \in C10_Failed : C10_Killed(x) /\ C10_Assigned(x)

\* C10, amended: the refusing worker is KILLED; the event is assigned in
\* the same pass to another idle worker that accepts it or, when none does,
\* to a new worker, provided the worker table, which still counts the
\* killed workers, holds fewer than children_max workers and the spawn
\* succeeds; otherwise the event stays QUEUED and the pass ends.
C10_Amended ==
    \A x \in C10_Failed :
        /\ C10_Killed(x)
        /\ x.o.r > 0 => C10_Assigned(x)
        /\ x.o.r = 0 =>
              /\ C10_StaysQueued(x)
              /\ Cardinality(DOMAIN workers) >= children_max
        /\ x.o.r < 0 =>
              /\ C10_StaysQueued(x)
              /\ Cardinality(DOMAIN workers) < children_max
              /\ x.o.m.log.errno # "none"

\* An idle worker can refuse and another idle worker take the event.
C10_Witness ==
    \E x \in C10_Failed :
        /\ x.o.r > 0
        /\ x.o.m.events[x.i].worker \in IdleWorkers(M)

(***************************************************************************)
(* C11.  Unresponsive worker: a worker that does not accept the device is  *)
(* sent SIGKILL, marked KILLED and never linked to an event again; if the  *)
(* dispatch ends without a worker for the event, the event is still in the *)
(* queue, QUEUED and without worker, and a later dispatch can give it only *)
(* to a worker other than the ones that refused.                           *)
(***************************************************************************)
C11_StaysQueued(x) ==
    LET e == x.o.m.events[x.i]
    IN  /\ Len(x.o.m.events) = Len(events)
        /\ e.seqnum = events[x.i].seqnum
        /\ e.state = EVENT_QUEUED
        /\ e.worker = 0

C11_Eligible(x) ==
    /\ event_is_blocked(x.o.m.events, x.i, TRUE, now_usec).r = 0
    /\ \A u \in event_run(x.o.m, x.i) :
          u.r > 0 => u.m.events[x.i].worker \notin C10_Refused(x.o)

C11_Outcome ==
    \A x \in C10_Failed :
        /\ C10_Killed(x)
        /\ x.o.m.events[x.i].worker \notin C10_Refused(x.o)
        /\ x.o.r <= 0 => (C11_StaysQueued(x) /\ C11_Eligible(x))

\* A KILLED worker without event stays as it is until it is reaped.
C11_NeverLinked ==
    \A pid \in DOMAIN workers :
        (/\ workers[pid].state = WORKER_KILLED
         /\ workers[pid].event = 0
         /\ pid \in DOMAIN workers') => workers'[pid] = workers[pid]

C11_Unresponsive == []C11_Outcome /\ [][C11_NeverLinked]_vars

\* Every idle worker refuses and the table is full: the event stays QUEUED.
C11_Witness ==
    \E x \in C10_Failed :
        /\ x.o.r = 0
        /\ x.o.m.events[x.i].state = EVENT_QUEUED

(***************************************************************************)
(* C12.  Every transition of an event from QUEUED to RUNNING attaches it   *)
(* to a worker that was IDLE or to a worker created by that dispatch; a    *)
(* worker that is KILLING or KILLED is never given a new event.            *)
(***************************************************************************)
\* The worker holds an event after the step that it did not hold before.
C12_Attached(pid) ==
    /\ pid \in DOMAIN workers'
    /\ workers'[pid].event # 0
    /\ pid \in DOMAIN workers => workers[pid].event # workers'[pid].event

C12_IdleOrNew(pid) ==
    \/ pid \notin DOMAIN workers
    \/ workers[pid].state = WORKER_IDLE

C12_Enter ==
    \A j \in 1..Len(events') :
        C1_EntersRunning(j) =>
            /\ events'[j].worker \in DOMAIN workers'
            /\ workers'[events'[j].worker].event = events'[j].seqnum
            /\ C12_IdleOrNew(events'[j].worker)

C12_Attach ==
    \A pid \in DOMAIN workers' : C12_Attached(pid) => C12_IdleOrNew(pid)

C12_SkipsKilled == [][C12_Enter /\ C12_Attach]_vars

\* A KILLED worker waits to be reaped while another worker runs an event.
C12_Witness ==
    \E p \in DOMAIN workers, q \in DOMAIN workers :
        /\ workers[p].state \in {WORKER_KILLED, WORKER_KILLING}
        /\ workers[p].event = 0
        /\ procs[p] = "wait"
        /\ workers[q].state = WORKER_RUNNING
        /\ workers[q].event # 0

(***************************************************************************)
(* C13.  Dispatch order.                                                   *)
(***************************************************************************)
\* A QUEUED event that has never been RUNNING: a requeue sets its deadline.
C13_NeverRan(e) == e.state = EVENT_QUEUED /\ e.retry_again_timeout_usec = 0

\* The event at position j after the step enters RUNNING for the first time.
C13_FirstRun(j) ==
    /\ events'[j].state = EVENT_RUNNING
    /\ \E i \in 1..Len(events) :
          /\ events[i].seqnum = events'[j].seqnum
          /\ C13_NeverRan(events[i])

C13_HeldBack(k) ==
    /\ event_is_blocked(events', k, TRUE, now_usec).r > 0
    /\ \E b \in 1..Len(events') :
          /\ events'[b].seqnum < events'[k].seqnum
          /\ is_conflicting(events'[b], events'[k])

C14_Drained == exited => (exit /\ events = <<>> /\ workers = <<>>)

\* The step that calls sd_event_exit().
C14_Request ==
    (~exited /\ exited') =>
        /\ exit
        /\ events = <<>> /\ workers = <<>>
        /\ events' = <<>> /\ workers' = <<>>
        /\ \E unlink_ok \in BOOLEAN : on_post_empty(M, queue_file, unlink_ok).exited

C14_ExitWhenDrained == []C14_Drained /\ [][C14_Request]_vars

\* The manager has left its loop after it handled an event and its last
\* worker was reaped.
C14_Witness ==
    /\ exited
    /\ kseq > 0
    /\ procs = <<>>

(***************************************************************************)
(* C15.  Reaping: when the exit of a worker process is reaped, whatever    *)
(* the cause of the exit and the state of the worker, the worker leaves    *)
(* the worker table and the event it had in flight leaves the queue, and   *)
(* an event that has left the queue is never queued or dispatched again.   *)
(***************************************************************************)
\* on_sigchld() has run for this process in the step.
C15_Reaped(pid) == pid \in DOMAIN procs /\ pid \notin DOMAIN procs'

C15_Reap ==
    \A pid \in DOMAIN workers :
        C15_Reaped(pid) =>
            /\ pid \notin DOMAIN workers'
            /\ workers[pid].event \notin Seqnums(events')
            /\ \A q \in DOMAIN workers' : workers'[q].event # workers[pid].event
                                             \/ workers[pid].event = 0

C15_Discarded ==
    \A seqnum \in 1..kseq :
        seqnum \notin Seqnums(events) =>
            /\ seqnum \notin Seqnums(events')
            /\ \A q \in DOMAIN workers' : workers'[q].event # seqnum

C15_ReapPolicy == [][C15_Reap /\ C15_Discarded]_vars

\* A worker process has exited with its event in flight and waits to be
\* reaped, the worker being RUNNING, KILLING or KILLED.
C15_Witness ==
    \E pid \in DOMAIN workers :
        /\ procs[pid] = "zombie"
        /\ workers[pid].event \in Seqnums(events)
        /\ events[IndexOf(events, workers[pid].event)].state = EVENT_RUNNING
        /\ ~crashed /\ ~exited

(***************************************************************************)
(* C16.  No event is stuck forever: when neither shutdown nor a stop of    *)
(* the queue is requested, spawning eventually succeeds, time advances and *)
(* every worker process eventually sends its final report or exits, every  *)
(* inserted event is eventually removed from the queue; none remains       *)
(* QUEUED or RUNNING forever.                                              *)
(***************************************************************************)
C16_Inserted(seqnum) == seqnum \in Seqnums(events)

C16_Removed(seqnum) == seqnum \notin Seqnums(events)

C16_Original == \A seqnum \in 1..MaxEvents : C16_Inserted(seqnum) ~> C16_Removed(seqnum)

(***************************************************************************)
(* C17.  The queue marker file /run/udev/queue.                            *)
(***************************************************************************)
C17_Present == events # <<>> => queue_file

\* What a post-processing phase that finds the queue empty leaves of the file.
C17_AfterPost(unlink_ok) == on_post_empty(M, queue_file, unlink_ok).queue_file

\* C17 as stated (the creation of the file succeeds): the file exists in
\* every state where the queue is not empty, and after every post-processing
\* phase that finds the queue empty it does not exist.
C17_Original ==
    /\ C17_Present
    /\ (~crashed /\ ~exited /\ events = <<>>) =>
          \A unlink_ok \in BOOLEAN : ~C17_AfterPost(unlink_ok)

C17_Removal ==
    (~crashed /\ ~exited /\ events = <<>>) =>
        /\ ~C17_AfterPost(TRUE)
        /\ C17_AfterPost(FALSE) = queue_file

\* The file is created by the insertion into the empty queue and removed
\* by the post-processing phase that finds the queue empty, and by no
\* other step.
C17_Applied ==
    /\ (~queue_file /\ queue_file') => (events = <<>> /\ events' # <<>>)
    /\ (queue_file /\ ~queue_file') =>
          (events = <<>> /\ events' = <<>> /\ queue_file' = C17_AfterPost(TRUE))
    /\ (events = <<>> /\ events' # <<>>) => queue_file'

\* C17, amended (the creation and the removal of the file succeed): the
\* file exists in every state where the queue is not empty, and after every
\* post-processing phase that finds the queue empty it does not exist; when
\* the removal fails the file is left as it was.
C17_Amended == []C17_Present /\ []C17_Removal /\ [][C17_Applied]_vars

\* The queue has drained and the post-processing phase has removed the file.
C17_Witness ==
    /\ kseq > 0
    /\ events = <<>>
    /\ ~queue_file
    /\ ~exited /\ ~crashed

(***************************************************************************)
(* C18.  Insert validation: a device without sequence number, action or    *)
(* device path is refused with an error, and the queue, the worker table   *)
(* and the marker file stay as they are; a device without previous path,   *)
(* device id or devnode is queued.                                         *)
(***************************************************************************)
C18_Insert(dev) == on_uevent_do(M, queue_file, dev, kseq + 1)

C18_Refused(dev) ==
    /\ C18_Insert(dev).m.log.r < 0
    /\ C18_Insert(dev).m.events = events
    /\ C18_Insert(dev).m.workers = workers
    /\ C18_Insert(dev).queue_file = queue_file
    /\ ~C18_Insert(dev).m.abort

C18_Queued(dev) ==
    LET evs == C18_Insert(dev).m.events
    IN  /\ C18_Insert(dev).m.log.r = 0
        /\ Len(evs) = Len(events) + 1
        /\ evs[Len(evs)].seqnum = kseq + 1
        /\ evs[Len(evs)].state = EVENT_QUEUED
        /\ evs[Len(evs)].devpath = dev.devpath
        /\ evs[Len(evs)].devpath_old = dev.devpath_old
        /\ evs[Len(evs)].id = dev.id
        /\ evs[Len(evs)].devnode = dev.devnode

C18_Mandatory(dev) == dev.seqnum_ok /\ dev.action_ok /\ dev.devpath # NULL

C18_InsertValidation ==
    (~crashed /\ ~exited /\ ~exit) =>
        \A dev \in AllDevices :
            IF C18_Mandatory(dev) THEN C18_Queued(dev) ELSE C18_Refused(dev)

\* A uevent can arrive while the queue, the worker table and the marker
\* file are all in use.
C18_Witness ==
    /\ ~crashed /\ ~exited /\ ~exit
    /\ kseq < MaxEvents
    /\ events # <<>>
    /\ workers # <<>>
    /\ queue_file
    /\ \E dev \in BadDevices : ~dev.action_ok /\ C18_Refused(dev)
    /\ \E dev \in Devices : dev.id = NULL /\ dev.devnode = NULL /\ C18_Queued(dev)

(***************************************************************************)
(* C19.  No overtaking on saturation: when no idle worker accepts an event *)
(* and the worker table holds children_max workers or more, the event      *)
(* stays QUEUED and the pass ends: no later event of the queue is looked   *)
(* at, let alone started, in that pass.                                    *)
(***************************************************************************)
\* The event is ready to be dispatched and the table has no room.
C19_Saturated(i) ==
    /\ i \in QueuedIdx(events)
    /\ event_is_blocked(events, i, TRUE, now_usec).r = 0
    /\ Cardinality(DOMAIN workers) >= children_max

\* The rest of a pass that has come to the event at position i.
C19_Pass ==
    (~crashed /\ ~exited /\ ~exit) =>
        \A i \in 1..Len(events) :
            C19_Saturated(i) =>
                \A o \in dispatch_from(M, i) :
                    o.m.events[i].state = EVENT_QUEUED =>
                        /\ o.r = 0
                        /\ o.m.events[i].worker = 0
                        /\ IdleWorkers(o.m) = {}
                        /\ \A j \in (i + 1)..Len(events) : o.m.events[j] = events[j]

\* No step starts, or touches, a QUEUED event behind one that stays QUEUED
\* for want of a worker.
C19_Step ==
    \A i \in 1..Len(events) :
        (/\ C19_Saturated(i)
         /\ Len(events') = Len(events)
         /\ events'[i].state = EVENT_QUEUED)
            => \A j \in (i + 1)..Len(events) :
                   events[j].state = EVENT_QUEUED => events'[j] = events[j]

C19_NoOvertaking == []C19_Pass /\ [][C19_Step]_vars

\* A pass has found the first of two waiting events free of blockers and
\* has left it QUEUED, the table being full; the second has not been
\* looked at.
C19_Witness ==
    \E i \in QueuedIdx(events), j \in QueuedIdx(events) :
        /\ i < j
        /\ C19_Saturated(i)
        /\ events[i].blocker_seqnum = events[i].seqnum
        /\ events[j].blocker_seqnum = 0
        /\ ~HasBlocker(events, j)

(***************************************************************************)
(* C20.  The blocker cache: an event's cached blocker never decreases and  *)
(* never exceeds the event's own sequence number; once it equals the       *)
(* event's own sequence number, a blocking analysis of the event outside a *)
(* retry backoff never says blocked: it returns not blocked, or, when the  *)
(* clock cannot be read for an event with a retry time, the error that the *)
(* dispatch treats as not blocked.                                         *)
(***************************************************************************)
C20_Bounded ==
    \A i \in 1..Len(events) : events[i].blocker_seqnum <= events[i].seqnum

C20_Monotone ==
    \A i \in 1..Len(events), j \in 1..Len(events') :
        events[i].seqnum = events'[j].seqnum
            => events'[j].blocker_seqnum >= events[i].blocker_seqnum

C20_NoBlocker ==
    \A i \in QueuedIdx(events), now_ok \in BOOLEAN :
        (events[i].blocker_seqnum = events[i].seqnum /\ ~InBackoff(events[i])) =>
            LET b == event_is_blocked(events, i, now_ok, now_usec)
            IN  /\ ~b.abort
                /\ b.r <= 0
                /\ (b.r = 0) <=> (now_ok \/ events[i].retry_again_next_usec = 0)
                /\ b.events = events

C21_OnlyAbsentIds(earlier, e) ==
    /\ earlier.id = NULL
    /\ e.id = NULL
    /\ ~PathsConflict(e.devpath, earlier.devpath)
    /\ ~PathsConflict(e.devpath, earlier.devpath_old)
    /\ ~PathsConflict(e.devpath_old, earlier.devpath)
    /\ ~SamePresent(e.devnode, earlier.devnode)

\* The QUEUED events with no retry time whose every earlier event in the
\* queue shares nothing with them but the absence of a device id.
C21_Unrelated ==
    {i \in QueuedIdx(events) :
        /\ events[i].retry_again_next_usec = 0
        /\ \E j \in 1..Len(events) : events[j].seqnum < events[i].seqnum
        /\ \A j \in 1..Len(events) :
              events[j].seqnum < events[i].seqnum
                  => C21_OnlyAbsentIds(events[j], events[i])}

C21_Original ==
    (~crashed /\ ~exited) =>
        \A i \in C21_Unrelated : event_is_blocked(events, i, TRUE, now_usec).r = 0

(***************************************************************************)
(* C22.  Fail-open analysis: when the blocking analysis of a QUEUED event  *)
(* returns an error, the dispatch pass takes the event for not blocked and *)
(* attempts to run it in that same pass; the error never leaves the event  *)
(* waiting.                                                                *)
(***************************************************************************)
\* The outcomes of the dispatch pass on_post() may make in this state.
C22_Passes ==
    IF Running /\ events # <<>>
    THEN UNION {event_queue_start(M, kill_workers) : kill_workers \in BOOLEAN}
    ELSE {}

\* event_run() was called for the event in the pass that ended as o: its
\* retry timer is off, and it is RUNNING with a worker, or it could not be
\* started and the pass ended there, with r = 0 only for a full worker table.
C22_Attempted(o, seqnum) ==
    LET e == o.m.events[IndexOf(o.m.events, seqnum)]
    IN  /\ ~e.retry_event_source
        /\ \/ /\ e.state = EVENT_RUNNING
              /\ e.worker \in DOMAIN o.m.workers
              /\ o.m.workers[e.worker].event = seqnum
           \/ /\ e.state = EVENT_QUEUED
              /\ o.r <= 0
              /\ o.r = 0 => Cardinality(DOMAIN o.m.workers) >= children_max

C22_Outcome ==
    \A o \in C22_Passes :
        \A seqnum \in o.m.log.errs : ~o.m.abort => C22_Attempted(o, seqnum)

\* on_post() leaves the queue and the workers as one of these passes does.
C22_Applied ==
    (post /\ ~post' /\ events # <<>>) =>
        \E o \in C22_Passes : events' = o.m.events /\ workers' = o.m.workers

C22_FailOpen == []C22_Outcome /\ [][C22_Applied]_vars

\* on_post() is due while a QUEUED event waits for its retry time, the one
\* case in which the analysis reads the clock and can fail.
C22_Witness ==
    /\ Running /\ post /\ ~exit
    /\ \E i \in QueuedIdx(events) : InBackoff(events[i])

(***************************************************************************)
(* C23.  Spawn failure: if spawning a worker for an event fails at any     *)
(* step, the error is returned to the caller, the event is left QUEUED in  *)
(* its queue position with no worker link and no warning or hard-timeout   *)
(* timer armed, the worker table is unchanged, and the event is attempted  *)
(* again on the next dispatch pass, with no backoff.                       *)
(***************************************************************************)
\* The QUEUED events for which event_run() would have to spawn a worker.
C23_NeedsSpawn ==
    {i \in QueuedIdx(events) : Cardinality(DOMAIN workers) < children_max}

\* The event at position i as a failed spawn must leave it.
C23_LeftQueued(m, i) ==
    /\ Len(m.events) = Len(events)
    /\ \A k \in 1..Len(events) : m.events[k].seqnum = events[k].seqnum
    /\ m.events[i].state = EVENT_QUEUED
    /\ m.events[i].worker = 0
    /\ ~m.events[i].timeout_warning_event
    /\ ~m.events[i].timeout_event
    /\ \A pid \in DOMAIN m.workers : m.workers[pid].event # events[i].seqnum

\* No backoff: the retry times are as they were, and the next analysis of
\* the event gives the answer it would have given before the attempt.
C23_NoBackoff(m, i) ==
    /\ m.events[i].retry_again_next_usec = events[i].retry_again_next_usec
    /\ m.events[i].retry_again_timeout_usec = events[i].retry_again_timeout_usec
    /\ event_is_blocked(m.events, i, TRUE, now_usec).r
           = event_is_blocked(events, i, TRUE, now_usec).r

\* worker_spawn() itself: a failure changes neither the worker table nor the
\* processes it holds.
C23_Spawn ==
    Running =>
        \A i \in C23_NeedsSpawn :
            \A o \in worker_spawn(M, i) :
                o.r < 0 =>
                    /\ o.m.log.r < 0
                    /\ o.m.workers = workers
                    /\ o.m.procs = procs
                    /\ C23_LeftQueued(o.m, i)
                    /\ C23_NoBackoff(o.m, i)

\* event_run(): the error of the spawn is what it returns, and the workers
\* in the table are those that were there.
C23_Run ==
    Running =>
        \A i \in QueuedIdx(events) :
            \A o \in event_run(M, i) :
                o.r < 0 =>
                    /\ o.m.log.r < 0
                    /\ Cardinality(DOMAIN workers) < children_max
                    /\ DOMAIN o.m.workers = DOMAIN workers
                    /\ C23_LeftQueued(o.m, i)
                    /\ C23_NoBackoff(o.m, i)

\* The pass of on_post() that fails a spawn ends there: with an error, the
\* queue holds the events it held and no event has a worker that is not in
\* the table.
C23_Pass ==
    (Running /\ events # <<>>) =>
        \A o \in event_queue_start(M, FALSE) :
            (o.r < 0 /\ ~o.m.abort) =>
                /\ Seqnums(o.m.events) = Seqnums(events)
                /\ DOMAIN o.m.workers \subseteq
                       DOMAIN workers \cup {e.worker : e \in {o.m.events[k] : k \in RunningIdx(o.m.events)}}
                /\ \E i \in QueuedIdx(o.m.events) :
                      /\ event_is_blocked(o.m.events, i, TRUE, now_usec).r = 0
                         \/ events[i].seqnum \in o.m.log.errs
                      /\ ~o.m.events[i].retry_event_source

C23_SpawnFailure == C23_Spawn /\ C23_Run /\ C23_Pass

\* on_post() is due with a QUEUED event that no earlier event blocks, no
\* idle worker to take it and room in the worker table.
C23_Witness ==
    /\ Running /\ post /\ ~exit
    /\ \E i \in C23_NeedsSpawn :
          /\ event_is_blocked(events, i, TRUE, now_usec).r = 0
          /\ IdleWorkers(M) = {}

(***************************************************************************)
(* C24.  Reap reporting: whenever a worker that has an in-flight event is  *)
(* reaped, the event's device is annotated with the failure detail and the *)
(* outcome is broadcast to external listeners before the event is          *)
(* discarded.                                                              *)
(***************************************************************************)
\* The workers whose process has exited with an event in flight.
C24_ToReap ==
    IF Running
    THEN {pid \in DOMAIN workers : procs[pid] = "zombie" /\ workers[pid].event # 0}
    ELSE {}

C24_Reported(m, seqnum, si) ==
    /\ m.log.errno = si
    /\ seqnum \in m.log.bcast
    /\ seqnum \notin Seqnums(m.events)

C24_Silent(m, seqnum) ==
    /\ m.log.errno = "none"
    /\ m.log.bcast = {}
    /\ seqnum \notin Seqnums(m.events)

\* C24 as stated: for every exit cause (clean exit, non-zero exit, killed by
\* signal, core dump).
C24_Original ==
    \A pid \in C24_ToReap, si \in ExitCauses :
        C24_Reported(on_sigchld_do(M, pid, si), workers[pid].event, si)

C24_Outcome ==
    \A pid \in C24_ToReap, si \in ExitCauses :
        IF si = "exited_0"
        THEN C24_Silent(on_sigchld_do(M, pid, si), workers[pid].event)
        ELSE C24_Reported(on_sigchld_do(M, pid, si), workers[pid].event, si)

\* The handler leaves the queue and the worker table as on_sigchld_do() does.
C24_Applied ==
    \A pid \in C24_ToReap :
        (pid \notin DOMAIN procs') =>
            \E si \in ExitCauses :
                /\ events' = on_sigchld_do(M, pid, si).events
                /\ workers' = on_sigchld_do(M, pid, si).workers

\* C24, amended: whenever a worker that has an in-flight event is reaped
\* after a non-zero exit, a kill by signal or a core dump, the event's device
\* is annotated with the failure detail and broadcast before the event is
\* discarded; after a clean exit the event is discarded with neither.
C24_Amended == []C24_Outcome /\ [][C24_Applied]_vars

\* A worker process has exited while its event is RUNNING.
C24_Witness ==
    \E pid \in C24_ToReap :
        events[IndexOf(events, workers[pid].event)].state = EVENT_RUNNING

(***************************************************************************)
(* C25.  Soft kill: manager_kill_workers() with force = false, however     *)
(* many times it is issued, never sends a termination signal to a worker   *)
(* that still has an in-flight event; such a worker is only marked         *)
(* WORKER_KILLING, and is signalled when its event completes or is         *)
(* requeued.                                                               *)
(***************************************************************************)
\* The workers a soft kill issued now would signal.
C25_SoftKilled == {s[1] : s \in manager_kill_workers(M, FALSE).log.signals}

\* C25 as stated: in every state the manager can be in, a soft kill signals
\* no worker that has an event, and leaves such a worker WORKER_KILLING
\* unless a signal had been sent to it before.
C25_Original ==
    Running =>
        \A pid \in DOMAIN workers :
            workers[pid].event # 0 =>
                /\ pid \notin C25_SoftKilled
                /\ workers[pid].state # WORKER_KILLED =>
                       manager_kill_workers(M, FALSE).workers[pid].state = WORKER_KILLING

(***************************************************************************)
(* C26.  Hard timeout effect: when the hard timeout of a RUNNING event     *)
(* fires, the only state change is that the owning worker is signalled and *)
(* becomes WORKER_KILLED; the event stays RUNNING, linked to that worker   *)
(* and in its queue position until that worker's report arrives or the     *)
(* worker is reaped.                                                       *)
(***************************************************************************)
\* The positions of the events whose hard timeout is armed.
C26_Armed == IF Running THEN {i \in 1..Len(events) : events[i].timeout_event} ELSE {}

C26_Effect(m, i) ==
    LET pid == events[i].worker
    IN  /\ ~m.abort
        /\ m.events = events
        /\ m.procs = procs
        /\ m.workers = [workers EXCEPT ![pid].state = WORKER_KILLED]
        /\ m.log.signals = {<<pid, "timeout_signal">>}
        /\ m.log.bcast = {}

C26_Handler == \A i \in C26_Armed : C26_Effect(on_event_timeout_do(M, i), i)

\* A step of the handler changes nothing but the state of one worker.
C26_Applied ==
    on_event_timeout =>
        /\ events' = events
        /\ notify' = notify
        /\ procs' = procs
        /\ \E i \in C26_Armed :
              workers' = [workers EXCEPT ![events[i].worker].state = WORKER_KILLED]

\* The events before the one with this seqnum.
C26_Ahead(evs, seqnum) == {evs[k].seqnum : k \in 1..(IndexOf(evs, seqnum) - 1)}

\* The final report of the worker pid is taken from the notify socket.
C26_Reports(pid) ==
    /\ notify # <<>>
    /\ Head(notify).pid = pid
    /\ Head(notify).msg \in FinalReports
    /\ notify' = Tail(notify)

\* A RUNNING event of a WORKER_KILLED worker stays as it is, with no event
\* moved ahead of it, in every step but the worker's report and its reaping.
C26_Stays ==
    \A i \in 1..Len(events) :
        LET e == events[i]
        IN  (/\ e.state = EVENT_RUNNING
             /\ e.worker \in DOMAIN workers
             /\ workers[e.worker].state = WORKER_KILLED) =>
                \/ C26_Reports(e.worker)
                \/ e.worker \notin DOMAIN procs'
                \/ /\ e.seqnum \in Seqnums(events')
                   /\ events'[IndexOf(events', e.seqnum)] = e
                   /\ workers'[e.worker] = workers[e.worker]
                   /\ C26_Ahead(events', e.seqnum) \subseteq C26_Ahead(events, e.seqnum)

C26_HardTimeout == []C26_Handler /\ [][C26_Applied]_vars /\ [][C26_Stays]_vars

\* A RUNNING event whose worker has been signalled, its hard timeout armed,
\* and a later queued event that waits for it.
C26_Witness ==
    \E i \in C26_Armed :
        /\ events[i].state = EVENT_RUNNING
        /\ workers[events[i].worker].state = WORKER_KILLED
        /\ \E k \in (i + 1)..Len(events) :
              /\ events[k].state = EVENT_QUEUED
              /\ events[k].blocker_seqnum = events[i].seqnum

(***************************************************************************)
(* C27.  Timer scoping: the warning and hard-timeout timers of an event    *)
(* are armed only while the event is RUNNING and linked to a worker; they  *)
(* are armed on assignment and cancelled on completion, requeue,           *)
(* abandonment and reap, so no warning or hard-timeout handler ever runs   *)
(* for an event that has no worker.                                        *)
(***************************************************************************)
C27_Linked(evs, wks, i) ==
    /\ evs[i].state = EVENT_RUNNING
    /\ evs[i].worker \in DOMAIN wks
    /\ wks[evs[i].worker].event = evs[i].seqnum

C27_Timers(e) == {e.timeout_warning_event, e.timeout_event}

\* In the queue evs with the workers wks, an event has both timers while it
\* is RUNNING and linked, and neither otherwise.
C27_Scoped(evs, wks) ==
    \A i \in 1..Len(evs) :
        C27_Timers(evs[i]) = {C27_Linked(evs, wks, i)}

\* Requeue, completion and reap, applied to the manager's state: the event is
\* either gone with its timers or queued with none.
C27_Cancelled ==
    Running =>
        \A i \in 1..Len(events) :
            LET seqnum == events[i].seqnum
                pid == events[i].worker
                left(m) == \/ m.abort
                           \/ seqnum \notin Seqnums(m.events)
                           \/ C27_Timers(m.events[IndexOf(m.events, seqnum)]) = {FALSE}
            IN  C27_Linked(events, workers, i) =>
                    /\ \A now_ok \in BOOLEAN, timer_ok \in BOOLEAN :
                          left(event_requeue(M, seqnum, now_ok, timer_ok))
                    /\ left(event_free(M, seqnum))
                    /\ \A si \in ExitCauses : left(on_sigchld_do(M, pid, si))

\* The two handlers find the worker of their event.
C27_Handlers ==
    Running =>
        \A i \in 1..Len(events) :
            /\ events[i].timeout_event =>
                   events[i].worker # 0 /\ ~on_event_timeout_do(M, i).abort
            /\ events[i].timeout_warning_event => events[i].worker # 0

C28_Gated ==
    IF Running
    THEN {i \in QueuedIdx(events) : InBackoff(events[i])}
    ELSE {}

\* A requeue that keeps the event sets its retry time to now + interval.
C28_Requeue ==
    Running =>
        \A i \in RunningIdx(events) :
            LET seqnum == events[i].seqnum
                m == event_requeue(M, seqnum, TRUE, TRUE)
            IN  (~m.abort /\ seqnum \in Seqnums(m.events)) =>
                    m.events[IndexOf(m.events, seqnum)].retry_again_next_usec =
                        now_usec + EVENT_RETRY_INTERVAL_USEC

\* The analysis answers "blocked" and leaves every cached blocker alone.
C28_Blocked ==
    \A i \in C28_Gated :
        event_is_blocked(events, i, TRUE, now_usec) =
            [r |-> 1, abort |-> FALSE, events |-> events]

\* A pass in which the time lookup for the event did not fail leaves the
\* event as it is.
C28_Pass ==
    \A i \in C28_Gated, kill_workers \in BOOLEAN :
        \A o \in event_queue_start(M, kill_workers) :
            (~o.m.abort /\ events[i].seqnum \notin o.m.log.errs) =>
                /\ i <= Len(o.m.events)
                /\ o.m.events[i] = events[i]

\* The retry time of a queued event is changed only by on_uevent() for a
\* device of the same whole disk, which clears it.
C28_Kept ==
    \A i \in C28_Gated :
        LET e == events[i]
        IN  (/\ e.seqnum \in Seqnums(events')
             /\ events'[IndexOf(events', e.seqnum)].state = EVENT_QUEUED) =>
                LET n == events'[IndexOf(events', e.seqnum)].retry_again_next_usec
                IN  \/ n = e.retry_again_next_usec
                    \/ /\ n = 0
                       /\ Len(events') > Len(events)
                       /\ e.disk # NULL
                       /\ events'[Len(events')].disk = e.disk

C28_BackoffGate ==
    /\ [](C28_Requeue /\ C28_Blocked /\ C28_Pass)
    /\ [][C28_Kept]_vars

\* on_post is due while an event nothing else holds back is in its backoff:
\* no earlier event conflicts with it and a worker could be had for it.
C28_Witness ==
    /\ post
    /\ ~exit
    /\ \E i \in C28_Gated :
          /\ ~HasBlocker(events, i)
          /\ Cardinality(DOMAIN workers) < children_max

(***************************************************************************)
(* C29.  Retry deadline is fixed at the first retry: an event's retry      *)
(* deadline is set exactly once, at its first TRY_AGAIN report, to the     *)
(* time of that report plus the retry window, and is never changed         *)
(* afterwards; whether a TRY_AGAIN report abandons the event depends only  *)
(* on the current time and that deadline, not on the number of retries.    *)
(***************************************************************************)
\* The positions of the events a TRY_AGAIN report can be about.
C29_Reportable ==
    IF Running
    THEN {i \in RunningIdx(events) : events[i].worker \in DOMAIN workers}
    ELSE {}

C29_Expired(e) ==
    e.retry_again_timeout_usec > 0 /\ e.retry_again_timeout_usec <= now_usec

C29_Abandons(m, seqnum) == seqnum \notin Seqnums(m.events)

\* The second half of C29 as stated: the report abandons the event exactly
\* when the deadline is set and not after the current time.
C29_Original ==
    \A i \in C29_Reportable, now_ok \in BOOLEAN, timer_ok \in BOOLEAN :
        C29_Abandons(event_requeue(M, events[i].seqnum, now_ok, timer_ok), events[i].seqnum)
            <=> C29_Expired(events[i])

\* With the clock read and the retry timer armed, the report abandons the
\* event exactly when the deadline is set and not after the current time;
\* without either, it abandons the event whatever the time.
C29_Abandonment ==
    \A i \in C29_Reportable, now_ok \in BOOLEAN, timer_ok \in BOOLEAN :
        C29_Abandons(event_requeue(M, events[i].seqnum, now_ok, timer_ok), events[i].seqnum)
            <=> (C29_Expired(events[i]) \/ ~now_ok \/ ~timer_ok)

\* A report that requeues the event sets the deadline if there is none and
\* keeps it if there is one.
C29_SetOnce ==
    \A i \in C29_Reportable :
        LET seqnum == events[i].seqnum
            m == event_requeue(M, seqnum, TRUE, TRUE)
        IN  ~C29_Abandons(m, seqnum) =>
                m.events[IndexOf(m.events, seqnum)].retry_again_timeout_usec =
                    IF events[i].retry_again_timeout_usec = 0
                    THEN now_usec + EVENT_RETRY_TIMEOUT_USEC
                    ELSE events[i].retry_again_timeout_usec

\* The TRY_AGAIN report of the worker of e is taken from the notify socket.
C29_TryAgain(e) ==
    /\ notify # <<>>
    /\ Head(notify).pid = e.worker
    /\ Head(notify).msg = "TRY_AGAIN"
    /\ notify' = Tail(notify)

\* No step changes a deadline that is set; a step that sets one is the
\* handling of the event's TRY_AGAIN report; a new event has none.
C29_Fixed ==
    \A k \in 1..Len(events') :
        LET after == events'[k]
        IN  IF after.seqnum \in Seqnums(events)
            THEN LET e == events[IndexOf(events, after.seqnum)]
                 IN  IF e.retry_again_timeout_usec > 0
                     THEN after.retry_again_timeout_usec = e.retry_again_timeout_usec
                     ELSE after.retry_again_timeout_usec > 0 =>
                             /\ after.retry_again_timeout_usec =
                                    now_usec + EVENT_RETRY_TIMEOUT_USEC
                             /\ e.state = EVENT_RUNNING
                             /\ C29_TryAgain(e)
            ELSE after.retry_again_timeout_usec = 0

\* C29, amended: the deadline is set exactly once, at the first TRY_AGAIN
\* report that requeues the event, to the time of that report plus the
\* retry window, and no later report, re-dispatch or clearing of the
\* backoff changes it; provided the clock can be read and the retry timer
\* armed, whether a TRY_AGAIN report abandons the event depends only on the
\* current time and the deadline; a report for which either call fails
\* abandons the event whatever the time.
C29_Amended ==
    /\ [](C29_Abandonment /\ C29_SetOnce)
    /\ [][C29_Fixed]_vars

\* The worker of an event that was requeued before, and is running again at
\* a later time with its deadline still ahead, reports TRY_AGAIN once more.
C29_Witness ==
    /\ notify # <<>>
    /\ Head(notify).msg = "TRY_AGAIN"
    /\ \E i \in C29_Reportable :
          /\ events[i].worker = Head(notify).pid
          /\ events[i].retry_again_timeout_usec > now_usec
          /\ events[i].retry_again_timeout_usec # now_usec + EVENT_RETRY_TIMEOUT_USEC

(***************************************************************************)
(* C30.  Requeue keeps queue position: when a TRY_AGAIN report requeues an *)
(* event, the event becomes QUEUED and unlinked from its worker but keeps  *)
(* its sequence number, its cached blocker and its position in the queue,  *)
(* and the set and order of all other events in the queue are unchanged.   *)
(***************************************************************************)
\* The event before, with the fields a requeue may write left out.
C30_Kept(e) ==
    [seqnum |-> e.seqnum, blocker_seqnum |-> e.blocker_seqnum, id |-> e.id,
     devpath |-> e.devpath, devpath_old |-> e.devpath_old, devnode |-> e.devnode,
     disk |-> e.disk]

\* The queue after is the queue evs with the event at position i requeued
\* in place, and the worker pid has lost its event.
C30_InPlace(after, wks, evs, i, pid) ==
    /\ Len(after) = Len(evs)
    /\ \A k \in 1..Len(evs) : k # i => after[k] = evs[k]
    /\ C30_Kept(after[i]) = C30_Kept(evs[i])
    /\ after[i].state = EVENT_QUEUED
    /\ after[i].worker = 0
    /\ pid \in DOMAIN wks
    /\ wks[pid].event = 0

\* event_requeue() applied to any event a report can be about.
C30_Requeue ==
    \A i \in C29_Reportable, now_ok \in BOOLEAN, timer_ok \in BOOLEAN :
        LET seqnum == events[i].seqnum
            m == event_requeue(M, seqnum, now_ok, timer_ok)
        IN  seqnum \in Seqnums(m.events) =>
                /\ ~m.abort
                /\ C30_InPlace(m.events, m.workers, events, i, events[i].worker)

\* The step of on_notify() that takes a TRY_AGAIN report and keeps the event.
C30_Applied ==
    \A i \in C29_Reportable :
        (C29_TryAgain(events[i]) /\ events[i].seqnum \in Seqnums(events')) =>
            C30_InPlace(events', workers', events, i, events[i].worker)

C30_KeepsPosition == []C30_Requeue /\ [][C30_Applied]_vars

\* A requeued event at the head of the queue, a later event behind it.
C30_Witness ==
    /\ Len(events) > 1
    /\ events[1].state = EVENT_QUEUED
    /\ events[1].worker = 0
    /\ events[1].retry_again_timeout_usec > 0
    /\ events[1].retry_event_source

(***************************************************************************)
(* C31.  Report handling moves the worker on: after a worker's final       *)
(* report (done or TRY_AGAIN) is processed, the worker has no event and    *)
(* its state is IDLE if it was RUNNING, KILLED with SIGTERM sent if it was *)
(* KILLING, and still KILLED if it was KILLED; on a done report the event  *)
(* is removed from the queue.                                              *)
(***************************************************************************)
\* The workers of the table that have an event.
C31_Busy == IF Running THEN {pid \in DOMAIN workers : workers[pid].event # 0} ELSE {}

C31_Next(state) ==
    IF state = WORKER_RUNNING THEN WORKER_IDLE ELSE WORKER_KILLED

\* m is what the handling of a final report of pid leaves.
C31_Settled(m, pid) ==
    /\ ~m.abort
    /\ pid \in DOMAIN m.workers
    /\ m.workers[pid] = [state |-> C31_Next(workers[pid].state), event |-> 0]
    /\ m.log.signals = IF workers[pid].state = WORKER_KILLING
                       THEN {<<pid, "SIGTERM">>}
                       ELSE {}
    /\ \A p \in DOMAIN workers : p # pid => m.workers[p] = workers[p]

C31_Done ==
    \A pid \in C31_Busy :
        LET m == worker_settle(event_free(M, workers[pid].event), pid)
        IN  C31_Settled(m, pid) /\ workers[pid].event \notin Seqnums(m.events)

C31_Again ==
    \A pid \in C31_Busy, now_ok \in BOOLEAN, timer_ok \in BOOLEAN :
        C31_Settled(worker_settle(event_requeue(M, workers[pid].event, now_ok, timer_ok),
                                  pid),
                    pid)

\* The step of on_notify() that takes a final report of a worker with an
\* event leaves that worker so.
C31_Applied ==
    \A pid \in C31_Busy :
        (/\ notify # <<>>
         /\ Head(notify).pid = pid
         /\ Head(notify).msg \in FinalReports
         /\ notify' = Tail(notify)) =>
            /\ pid \in DOMAIN workers'
            /\ workers'[pid] = [state |-> C31_Next(workers[pid].state), event |-> 0]
            /\ Head(notify).msg = "DONE" => workers[pid].event \notin Seqnums(events')

C31_ReportMovesOn == [](C31_Done /\ C31_Again) /\ [][C31_Applied]_vars

\* The final report of a worker that was asked to stop while busy is due.
C31_Witness ==
    /\ notify # <<>>
    /\ Head(notify).msg \in FinalReports
    /\ Head(notify).pid \in C31_Busy
    /\ workers[Head(notify).pid].state = WORKER_KILLING

(***************************************************************************)
(* C32.  In-progress reports are not completion: a watch-add or            *)
(* watch-remove report from a worker leaves the worker's state, its        *)
(* event's state and link, the event's timers and the queue unchanged;     *)
(* only a report carrying neither key completes or requeues the event.     *)
(***************************************************************************)
\* A watch report of a worker with an event changes nothing and gives out
\* nothing.
C32_Watch ==
    \A pid \in C31_Busy, msg \in WatchReports, now_ok \in BOOLEAN, timer_ok \in BOOLEAN :
        on_notify_do(M, pid, msg, now_ok, timer_ok) = M

\* A final report does not leave the event RUNNING with that worker.
C32_Final ==
    \A pid \in C31_Busy, msg \in FinalReports, now_ok \in BOOLEAN, timer_ok \in BOOLEAN :
        LET m == on_notify_do(M, pid, msg, now_ok, timer_ok)
            seqnum == workers[pid].event
        IN  \/ seqnum \notin Seqnums(m.events)
            \/ /\ m.events[IndexOf(m.events, seqnum)].state = EVENT_QUEUED
               /\ msg = "TRY_AGAIN"

\* The step of on_notify() that takes a watch report.
C32_Applied ==
    \A pid \in C31_Busy :
        (/\ notify # <<>>
         /\ Head(notify).pid = pid
         /\ Head(notify).msg \in WatchReports
         /\ notify' = Tail(notify)) =>
            /\ events' = events
            /\ workers' = workers
            /\ procs' = procs
            /\ ~crashed'

C32_InProgress == [](C32_Watch /\ C32_Final) /\ [][C32_Applied]_vars

\* A watch report of a worker whose event is RUNNING with its timers armed
\* is due.
C32_Witness ==
    /\ notify # <<>>
    /\ Head(notify).msg \in WatchReports
    /\ Head(notify).pid \in C31_Busy
    /\ \E i \in 1..Len(events) :
          /\ events[i].worker = Head(notify).pid
          /\ events[i].state = EVENT_RUNNING
          /\ events[i].timeout_event

(***************************************************************************)
(* C33.  Shutdown admission: from the moment shutdown is requested, no new *)
(* device event is inserted into the queue, no event moves from QUEUED to  *)
(* RUNNING and no worker is spawned; every event that is QUEUED at that    *)
(* moment is removed from the queue, while RUNNING events stay until their *)
(* worker reports or is reaped.                                            *)
(***************************************************************************)
C33_IsRunning(e) == e.state = EVENT_RUNNING

\* manager_exit() removes the QUEUED events and keeps the RUNNING ones, in
\* order; it adds no worker.
C33_Exit ==
    Running =>
        LET m == manager_exit(M)
        IN  /\ ~m.abort
            /\ m.events = SelectSeq(events, C33_IsRunning)
            /\ DOMAIN m.workers = DOMAIN workers
            /\ m.procs = procs

\* A pass of a manager that is exiting starts nothing.
C33_NoStart ==
    (Running /\ exit) =>
        \A kill_workers \in BOOLEAN :
            \A o \in event_queue_start(M, kill_workers) : o.m = M /\ o.r = 0

\* No step of a manager that is exiting adds an event or a worker, or makes
\* an event RUNNING.
C33_Admission ==
    exit =>
        /\ Seqnums(events') \subseteq Seqnums(events)
        /\ DOMAIN workers' \subseteq DOMAIN workers
        /\ DOMAIN procs' \subseteq DOMAIN procs
        /\ \A k \in RunningIdx(events') :
              \E i \in RunningIdx(events) : events[i].seqnum = events'[k].seqnum

\* The step that requests the shutdown.
C33_Request ==
    (~exit /\ exit') => events' = SelectSeq(events, C33_IsRunning)

\* A RUNNING event of a manager that is exiting stays as it is in every
\* step but its worker's final report and its worker's reaping.
C33_Stays ==
    exit =>
        \A i \in RunningIdx(events) :
            LET e == events[i]
            IN  \/ C26_Reports(e.worker)
                \/ e.worker \notin DOMAIN procs'
                \/ /\ e.seqnum \in Seqnums(events')
                   /\ events'[IndexOf(events', e.seqnum)] = e

C33_ShutdownAdmission ==
    /\ [](C33_Exit /\ C33_NoStart)
    /\ [][C33_Admission /\ C33_Request /\ C33_Stays]_vars

\* on_post is due in a manager that is exiting, with a QUEUED event and room
\* in the worker table.
C33_Witness ==
    /\ Running /\ exit /\ post
    /\ QueuedIdx(events) # {}
    /\ Cardinality(DOMAIN workers) < children_max

(***************************************************************************)
(* C34.  Shutdown terminates: after shutdown is requested, if every worker *)
(* process eventually exits and is reaped, the manager eventually reaches  *)
(* a state with an empty queue and an empty worker table and exits its     *)
(* event loop, whatever reports (done or TRY_AGAIN) the workers send       *)
(* before they exit.                                                       *)
(***************************************************************************)
C34_Stopped == exited /\ events = <<>> /\ workers = <<>>

\* C34 as stated.
C34_Original == exit ~> C34_Stopped

(***************************************************************************)
(* C35.  Queue order: every accepted device event is appended at the tail  *)
(* of the queue in state QUEUED with no worker, a zero blocker cache and   *)
(* zero retry fields; given strictly increasing source sequence numbers,   *)
(* the queue is sorted by strictly increasing sequence number in every     *)
(* reachable state.                                                        *)
(***************************************************************************)
C35_Sorted(evs) ==
    \A i \in 1..Len(evs), j \in 1..Len(evs) : i < j => evs[i].seqnum < evs[j].seqnum

\* The event as event_queue_insert() leaves it.
C35_Fresh(e, dev, seqnum) ==
    /\ e.seqnum = seqnum
    /\ e.state = EVENT_QUEUED
    /\ e.worker = 0
    /\ e.blocker_seqnum = 0
    /\ e.retry_again_next_usec = 0
    /\ e.retry_again_timeout_usec = 0
    /\ ~e.retry_event_source
    /\ ~e.timeout_warning_event
    /\ ~e.timeout_event
    /\ e.devpath = dev.devpath
    /\ e.id = dev.id

\* on_uevent() for any device it accepts, in the manager's state.
C35_Insert ==
    Running =>
        \A dev \in AllDevices :
            insert_ok(dev) =>
                LET after == on_uevent_do(M, queue_file, dev, kseq + 1).m.events
                IN  /\ Len(after) = Len(events) + 1
                    /\ C35_Fresh(after[Len(after)], dev, kseq + 1)
                    /\ \A i \in 1..Len(events) : after[i].seqnum = events[i].seqnum

\* A step that adds an event to the queue adds it at the tail.
C35_Applied ==
    Seqnums(events') \ Seqnums(events) # {} =>
        /\ Len(events') = Len(events) + 1
        /\ events'[Len(events')].seqnum \notin Seqnums(events)
        /\ events'[Len(events')].state = EVENT_QUEUED
        /\ events'[Len(events')].blocker_seqnum = 0
        /\ \A i \in 1..Len(events) : events'[i].seqnum = events[i].seqnum

C35_QueueOrder ==
    /\ [](C35_Sorted(events) /\ C35_Insert)
    /\ [][C35_Applied]_vars

\* A new event behind one that is RUNNING or has been requeued.
C35_Witness ==
    /\ Len(events) > 1
    /\ events[Len(events)].blocker_seqnum = 0
    /\ events[Len(events)].state = EVENT_QUEUED
    /\ \/ events[1].state = EVENT_RUNNING
       \/ events[1].retry_again_timeout_usec > 0

(***************************************************************************)
(* C36.  Idle reuse before spawn: dispatch spawns a new worker only when   *)
(* no IDLE worker accepted the event and the worker table holds fewer than *)
(* children_max workers; whenever some IDLE worker accepts the hand-off,   *)
(* the event is attached to an existing worker and the worker table size   *)
(* does not change.                                                        *)
(***************************************************************************)
\* worker_spawn() was called in the run that ended as o: a worker was
\* added, or a process was forked without one, or the spawn failed.
C36_Spawned(o) ==
    \/ DOMAIN o.m.workers # DOMAIN workers
    \/ o.m.orphans # {}
    \/ o.m.log.errno \in {"monitor", "fork", "worker_new"}

\* Every worker that was idle has refused the event and been killed.
C36_AllRefused(o) ==
    \A pid \in IdleWorkers(M) :
        /\ o.m.workers[pid].state = WORKER_KILLED
        /\ o.m.workers[pid].event = 0
        /\ <<pid, "SIGKILL">> \in o.m.log.signals

C36_Run ==
    Running =>
        \A i \in QueuedIdx(events) :
            \A o \in event_run(M, i) :
                LET pid == o.m.events[i].worker
                IN  /\ C36_Spawned(o) =>
                        /\ C36_AllRefused(o)
                        /\ Cardinality(DOMAIN workers) < children_max
                        /\ Cardinality(DOMAIN o.m.workers) <= Cardinality(DOMAIN workers) + 1
                    /\ (pid # 0 /\ pid \in DOMAIN workers) =>
                        /\ workers[pid].state = WORKER_IDLE
                        /\ DOMAIN o.m.workers = DOMAIN workers
                        /\ o.m.orphans = {}
                        /\ o.m.workers[pid] = [state |-> WORKER_RUNNING,
                                               event |-> events[i].seqnum]

\* A step that adds workers had room for each of them, and leaves no worker
\* that was idle still idle.
C36_Applied ==
    DOMAIN workers' \ DOMAIN workers # {} =>
        /\ Cardinality(DOMAIN workers') <= children_max
        /\ \A pid \in DOMAIN workers :
              workers[pid].state = WORKER_IDLE =>
                  /\ pid \in DOMAIN workers'
                  /\ workers'[pid].state \in {WORKER_RUNNING, WORKER_KILLED}

C36_IdleReuse == []C36_Run /\ [][C36_Applied]_vars

\* on_post is due with a QUEUED event, an idle worker whose process waits
\* for a device, and room for another worker.
C36_Witness ==
    /\ Running /\ post /\ ~exit
    /\ QueuedIdx(events) # {}
    /\ \E pid \in IdleWorkers(M) : CanAccept(M, pid)
    /\ Cardinality(DOMAIN workers) < children_max

(***************************************************************************)
(* C37.  Worker termination is one-way: once a worker is KILLED it stays   *)
(* KILLED until its record is removed by reaping, and a worker that is     *)
(* KILLING can only become KILLED; neither ever returns to IDLE or         *)
(* RUNNING, under any sequence of reports, kill requests, timeouts and     *)
(* dispatch passes.                                                        *)
(***************************************************************************)
C37_After(state) ==
    IF state = WORKER_KILLED THEN {WORKER_KILLED}
    ELSE IF state = WORKER_KILLING THEN {WORKER_KILLING, WORKER_KILLED}
    ELSE {WORKER_IDLE, WORKER_RUNNING, WORKER_KILLING, WORKER_KILLED}

\* wks is a worker table that respects the states of the manager's workers.
C37_OneWay(wks) ==
    \A pid \in DOMAIN workers :
        pid \in DOMAIN wks /\ wks[pid].state \in C37_After(workers[pid].state)

\* Every step: a worker leaves the table only by being reaped, and a worker
\* that stays moves only forward.
C37_Step ==
    \A pid \in DOMAIN workers :
        IF pid \in DOMAIN workers'
        THEN workers'[pid].state \in C37_After(workers[pid].state)
        ELSE procs[pid] = "zombie" /\ pid \notin DOMAIN procs'

\* The handlers other than on_sigchld(), applied to the manager's state.
C37_Handlers ==
    Running =>
        /\ \A force \in BOOLEAN : C37_OneWay(manager_kill_workers(M, force).workers)
        /\ C37_OneWay(manager_exit(M).workers)
        /\ \A i \in C26_Armed : C37_OneWay(on_event_timeout_do(M, i).workers)
        /\ \A pid \in DOMAIN workers, msg \in Reports \cup WatchReports,
              now_ok \in BOOLEAN, timer_ok \in BOOLEAN :
              LET m == on_notify_do(M, pid, msg, now_ok, timer_ok)
              IN  m.abort \/ C37_OneWay(m.workers)
        /\ \A kill_workers \in BOOLEAN :
              \A o \in event_queue_start(M, kill_workers) :
                  o.m.abort \/ C37_OneWay(o.m.workers)

C37_Termination == []C37_Handlers /\ [][C37_Step]_vars

\* on_post is due with a QUEUED event while a killed worker's process is
\* still waiting for a device, and another worker is KILLING.
C37_Witness ==
    /\ Running /\ post /\ ~exit
    /\ QueuedIdx(events) # {}
    /\ \E pid \in DOMAIN workers :
          /\ workers[pid].state = WORKER_KILLED
          /\ workers[pid].event = 0
          /\ procs[pid] = "wait"
    /\ \E pid \in DOMAIN workers : workers[pid].state = WORKER_KILLING

(***************************************************************************)
(* C38.  Assume-unlocked frame: event_queue_assume_block_device_unlocked() *)
(* for a device only zeroes the next-retry time of events that are QUEUED, *)
(* are in retry backoff and belong to the same whole disk as that device;  *)
(* it leaves their retry deadline, state and blocker cache, all RUNNING    *)
(* events, all events of other disks, the queue order and the worker table *)
(* unchanged.                                                              *)
(***************************************************************************)
\* The event waits for a retry of a device on the whole disk of dev.
C38_Concerned(e, dev) ==
    /\ e.state = EVENT_QUEUED
    /\ e.retry_again_next_usec # 0
    /\ dev.disk # NULL
    /\ e.disk = dev.disk

\* after is the queue evs with nothing changed but the next-retry time of
\* the events concerned, which is zero.
C38_Frame(after, evs, dev) ==
    /\ Len(after) = Len(evs)
    /\ \A i \in 1..Len(evs) :
          /\ [after[i] EXCEPT !.retry_again_next_usec = 0] =
                 [evs[i] EXCEPT !.retry_again_next_usec = 0]
          /\ after[i].retry_again_next_usec =
                 IF C38_Concerned(evs[i], dev) THEN 0 ELSE evs[i].retry_again_next_usec

C38_Call ==
    \A dev \in AllDevices :
        C38_Frame(event_queue_assume_block_device_unlocked(events, dev), events, dev)

\* The step of on_uevent() that accepts a device: the events that were in
\* the queue are left so, and the worker table is untouched.
C38_Applied ==
    Len(events') > Len(events) =>
        /\ \E dev \in AllDevices :
              /\ dev.disk = events'[Len(events')].disk
              /\ C38_Frame(SubSeq(events', 1, Len(events)), events, dev)
        /\ workers' = workers
        /\ procs' = procs

C38_AssumeUnlocked == []C38_Call /\ [][C38_Applied]_vars

\* A uevent for a device of a whole disk has cleared the retry time of a
\* QUEUED event of that disk, which keeps its deadline.
C38_Witness ==
    /\ Len(events) > 1
    /\ events[Len(events)].blocker_seqnum = 0
    /\ events[Len(events)].disk # NULL
    /\ \E i \in 1..(Len(events) - 1) :
          /\ events[i].disk = events[Len(events)].disk
          /\ events[i].state = EVENT_QUEUED
          /\ events[i].retry_again_timeout_usec > 0
          /\ events[i].retry_again_next_usec = 0

(***************************************************************************)
(* C39.  Every worker process is tracked: after any dispatch, including    *)
(* one where creating the worker record fails after the process was        *)
(* forked, every forked worker process that is processing an event has a   *)
(* Worker record in the worker table linked to that event, so no event     *)
(* that the manager holds as QUEUED is being processed by a worker         *)
(* process.                                                                *)
(***************************************************************************)
\* The events some process is handling after the pass that ended as o: those
\* of the workers whose process is at work, and those handed to a process
\* that was forked without a Worker.
C39_Processed(o) ==
    {o.m.workers[pid].event : pid \in {p \in DOMAIN o.m.procs : o.m.procs[p] = "work"}}
        \cup o.m.orphans

\* C39 as stated: after any pass, no process without a Worker handles an
\* event, and no event that is being handled is QUEUED.
C39_Original ==
    (Running /\ events # <<>>) =>
        \A kill_workers \in BOOLEAN :
            \A o \in event_queue_start(M, kill_workers) :
                /\ o.m.orphans = {}
                /\ \A i \in QueuedIdx(o.m.events) :
                      o.m.events[i].seqnum \notin C39_Processed(o)

(***************************************************************************)
(* C40.  Reports always find an event: given that each worker sends        *)
(* watch-add, watch-remove, done or TRY_AGAIN reports only between         *)
(* receiving an event and sending its final report for it, every report    *)
(* the manager processes from a worker in the worker table finds that      *)
(* worker with an attached event, across all interleavings of reports with *)
(* hard timeouts, kill requests, shutdown and reaping; the manager never    *)
(* requeues or dereferences a missing event.                               *)
(***************************************************************************)
\* The workers of the table with a datagram in the notify socket.
C40_Reporting ==
    {notify[k].pid : k \in 1..Len(notify)} \cap DOMAIN workers

\* Each of them has an event, RUNNING in the queue and linked back.
C40_Attached ==
    \A pid \in C40_Reporting :
        /\ workers[pid].event # 0
        /\ workers[pid].event \in Seqnums(events)
        /\ LET e == events[IndexOf(events, workers[pid].event)]
           IN  e.state = EVENT_RUNNING /\ e.worker = pid

\* Handling the next datagram fails no assert() and follows no NULL pointer.
C40_Handled ==
    (Running /\ notify # <<>>) =>
        \A now_ok \in BOOLEAN, timer_ok \in BOOLEAN :
            ~on_notify_do(M, Head(notify).pid, Head(notify).msg, now_ok, timer_ok).abort

\* The step of on_notify() does not end the manager.
C40_Applied == (notify # <<>> /\ notify' = Tail(notify) /\ ~crashed) => ~crashed'

C40_ReportsFindEvent == [](C40_Attached /\ C40_Handled) /\ [][C40_Applied]_vars

\* A report is due from a worker that has been killed, in a manager that is
\* exiting.
C40_Witness ==
    /\ Running /\ exit
    /\ \E pid \in C40_Reporting : workers[pid].state = WORKER_KILLED

====
